---- MODULE Spec2Model ----
(***************************************************************************)
(* Dependency graph engine of CodeVisualizer: CodebaseAnalyzer,            *)
(* CodebaseMermaidGenerator, CodebaseGraphBuilder and FileTypeClassifier   *)
(* (src/src/core/dependency/index.ts, CodebaseGraphBuilder.ts).            *)
(*                                                                         *)
(* Strings are sequences of tokens.  A token is the separator "/", a word  *)
(* without dots, or a dot followed by a word without dots (".", ".ts").    *)
(* "/w/src/b.ts" is <<"/","w","/","src","/","b",".ts">>; string            *)
(* concatenation is \o, so `resolved + ext` is resolved \o <<ext>>.        *)
(***************************************************************************)
EXTENDS Integers, Sequences, FiniteSets, TLC

----------------------------------------------------------------------------
(* Bounds of the model *)

\* longest text (number of import statements) of a.ts and of mod.py
MaxDeps == 2
\* number of generate() calls recorded after one analysis
MaxRenders == 2

\* the number of updateView runs of one panel
MaxRuns == 3

\* the number of directories of the widest directory
Breadth == 12

----------------------------------------------------------------------------
(* Strings and node's path module (POSIX flavour) *)

SEP == "/"

DotToks == {".", ".js", ".ts", ".jsx", ".tsx", ".mjs", ".cjs", ".py",
            ".java", ".cpp", ".cxx", ".cc", ".c", ".h", ".hpp", ".rs", ".go",
            ".md", ".git", ".eslintrc"}

startsWithDot(s) == Len(s) > 0 /\ s[1] \in DotToks

startsWithSep(s) == Len(s) > 0 /\ s[1] = SEP

includesSep(s) == \E i \in 1..Len(s) : s[i] = SEP

\* s.includes(needle) for a needle made of whole tokens ("/config/")
includesToks(s, needle) ==
  \E i \in 0..(Len(s) - Len(needle)) :
     \A j \in 1..Len(needle) : s[i + j] = needle[j]

\* s.split(path.sep): the pieces between the separators, empty pieces included
splitSep(s) ==
  LET cuts == SelectSeq([i \in 1..(Len(s) + 2) |-> i - 1],
                        LAMBDA i : i = 0 \/ i = Len(s) + 1 \/ s[i] = SEP)
  IN [r \in 1..(Len(cuts) - 1) |-> SubSeq(s, cuts[r] + 1, cuts[r + 1] - 1)]

RECURSIVE joinSep(_)
joinSep(segs) ==
  IF segs = <<>> THEN <<>>
  ELSE IF Len(segs) = 1 THEN segs[1]
  ELSE segs[1] \o <<SEP>> \o joinSep(Tail(segs))

DOT == <<".">>
DOTDOT == <<".", ".">>

\* normalisation of a segment list: "" and "." dropped, ".." pops;
\* above the start ".." is kept for a relative path and dropped for an absolute one
RECURSIVE normSegs(_, _, _)
normSegs(segs, acc, keepAbove) ==
  IF segs = <<>> THEN acc
  ELSE LET s == Head(segs) IN
       IF s = <<>> \/ s = DOT THEN normSegs(Tail(segs), acc, keepAbove)
       ELSE IF s = DOTDOT
            THEN IF acc # <<>> /\ acc[Len(acc)] # DOTDOT
                 THEN normSegs(Tail(segs), SubSeq(acc, 1, Len(acc) - 1), keepAbove)
                 ELSE IF keepAbove THEN normSegs(Tail(segs), Append(acc, s), keepAbove)
                      ELSE normSegs(Tail(segs), acc, keepAbove)
            ELSE normSegs(Tail(segs), Append(acc, s), keepAbove)

absSegs(p) == normSegs(splitSep(p), <<>>, FALSE)

absOf(segs) == <<SEP>> \o joinSep(segs)

\* path.resolve(from, to), from absolute
pathResolve(from, to) ==
  IF startsWithSep(to) THEN absOf(absSegs(to))
  ELSE absOf(absSegs(from \o <<SEP>> \o to))

\* path.join(a, b), a absolute
pathJoin(a, b) == absOf(absSegs(a \o <<SEP>> \o b))

\* path.dirname(p), p absolute
pathDirname(p) ==
  LET segs == absSegs(p) IN
  IF Len(segs) <= 1 THEN <<SEP>> ELSE absOf(SubSeq(segs, 1, Len(segs) - 1))

\* path.basename(p)
pathBasename(p) ==
  LET segs == SelectSeq(splitSep(p), LAMBDA s : s # <<>>) IN
  IF segs = <<>> THEN <<>> ELSE segs[Len(segs)]

\* path.extname(p): the last dot-token of the basename unless it starts the name
pathExtname(p) ==
  LET b == pathBasename(p) IN
  IF Len(b) >= 2 /\ b[Len(b)] \in DotToks /\ b # DOTDOT THEN b[Len(b)] ELSE ""

RECURSIVE commonLen(_, _)
commonLen(a, b) ==
  IF a = <<>> \/ b = <<>> \/ Head(a) # Head(b) THEN 0
  ELSE 1 + commonLen(Tail(a), Tail(b))

\* path.relative(from, to), both absolute
pathRelative(from, to) ==
  LET f == absSegs(from)
      t == absSegs(to)
      k == commonLen(f, t)
  IN joinSep([i \in 1..(Len(f) - k) |-> DOTDOT] \o SubSeq(t, k + 1, Len(t)))

\* relativePath.split(path.sep).filter((p) => p)
pathParts(rel) == SelectSeq(splitSep(rel), LAMBDA s : s # <<>>)

----------------------------------------------------------------------------
(* FileTypeClassifier *)

FileCategories == {"core", "report", "config", "tool", "entry"}
EdgeTypes == {"normal", "processing", "special", "internal", "utility", "indirect"}

\* String.prototype.toLowerCase, token by token
lowerTok(t) ==
  CASE t = "Index" -> "index"
    [] t = "Config" -> "config"
    [] t = ".TS" -> ".ts"
    [] OTHER -> t

toLowerCase(s) == [i \in 1..Len(s) |-> lowerTok(s[i])]

\* the needles of the classifier that occur inside one (lower-case) token
wordIncludes(t) ==
  CASE t = "config" -> {"config"}
    [] t = "report" -> {"report"}
    [] t = "options" -> {"options"}
    [] t = "extract" -> {"extract"}
    [] t = "hotspots" -> {"hotspots"}
    [] OTHER -> {}

\* the needles ("graph-", "config-") a token starts with
wordPrefixes(t) ==
  CASE t = "graph-x" -> {"graph-"}
    [] t = "config-x" -> {"config-"}
    [] OTHER -> {}

\* lowerFileName.includes(needle)
nameIncludes(name, needle) == \E i \in 1..Len(name) : needle \in wordIncludes(name[i])

\* lowerPath.includes("/" + dir + "/")
pathIncludesDir(p, dir) == includesToks(p, <<SEP, dir, SEP>>)

\* lowerPath.includes("/" + prefix), prefix ending in "-"
pathIncludesPrefix(p, prefix) ==
  \E i \in 1..(Len(p) - 1) : p[i] = SEP /\ prefix \in wordPrefixes(p[i + 1])

\* the classifier with the config rule tried before the tool rule
classifyFileConfigBeforeTool(relativePath, fileName) ==
  LET lowerPath == toLowerCase(relativePath)
      lowerFileName == toLowerCase(fileName)
  IN
  IF \/ lowerFileName \in {<<"index", ".ts">>, <<"index", ".js">>, <<"index", ".tsx">>,
                           <<"index", ".jsx">>, <<"index", ".mjs">>, <<"__init__", ".py">>}
     \/ \E n \in {"files-and-dirs", "options"} : nameIncludes(lowerFileName, n)
     \/ \E d \in {"main", "entry"} : pathIncludesDir(lowerPath, d)
  THEN "entry"
  ELSE IF \/ \E d \in {"report", "reports", "transform", "transforms"} : pathIncludesDir(lowerPath, d)
          \/ pathIncludesPrefix(lowerPath, "graph-")
          \/ \E n \in {"report", "transform", "consolidate", "match-facade", "gosubsum"} :
                nameIncludes(lowerFileName, n)
  THEN "report"
  ELSE IF \/ \E d \in {"validate", "validators", "config", "configs", "cli", "indexers",
                       "performance", "utils", "util", "helpers"} : pathIncludesDir(lowerPath, d)
          \/ pathIncludesPrefix(lowerPath, "config-")
          \/ \E n \in {"validator", "config", "format-helpers", "merge-configs",
                       "match-dependency-rule"} : nameIncludes(lowerFileName, n)
  THEN "config"
  ELSE IF \/ \E d \in {"bin", "cache", "tools", "tool"} : pathIncludesDir(lowerPath, d)
          \/ \E n \in {"hotspots", "wrap-stream", "options-compatible"} :
                nameIncludes(lowerFileName, n)
  THEN "tool"
  ELSE IF \/ \E d \in {"enrich", "extract", "schema", "schemas", "summarize", "acorn", "tsc",
                       "resolve", "transpile"} : pathIncludesDir(lowerPath, d)
          \/ \E n \in {"extract", "schema", "enrich", "summarize", "reachable", "derive",
                       "main-result-schema"} : nameIncludes(lowerFileName, n)
  THEN "core"
  ELSE "entry"

classifyFile(relativePath, fileName) ==
  LET lowerPath == toLowerCase(relativePath)
      lowerFileName == toLowerCase(fileName)
  IN
  IF \/ lowerFileName \in {<<"index", ".ts">>, <<"index", ".js">>, <<"index", ".tsx">>,
                           <<"index", ".jsx">>, <<"index", ".mjs">>, <<"__init__", ".py">>}
     \/ \E n \in {"files-and-dirs", "options"} : nameIncludes(lowerFileName, n)
     \/ \E d \in {"main", "entry"} : pathIncludesDir(lowerPath, d)
  THEN "entry"
  ELSE IF \/ \E d \in {"report", "reports", "transform", "transforms"} : pathIncludesDir(lowerPath, d)
          \/ pathIncludesPrefix(lowerPath, "graph-")
          \/ \E n \in {"report", "transform", "consolidate", "match-facade", "gosubsum"} :
                nameIncludes(lowerFileName, n)
  THEN "report"
  ELSE IF \/ \E d \in {"bin", "cache", "tools", "tool"} : pathIncludesDir(lowerPath, d)
          \/ \E n \in {"hotspots", "wrap-stream", "options-compatible"} :
                nameIncludes(lowerFileName, n)
  THEN "tool"
  ELSE IF \/ \E d \in {"validate", "validators", "config", "configs", "cli", "indexers",
                       "performance", "utils", "util", "helpers"} : pathIncludesDir(lowerPath, d)
          \/ pathIncludesPrefix(lowerPath, "config-")
          \/ \E n \in {"validator", "config", "format-helpers", "merge-configs",
                       "match-dependency-rule"} : nameIncludes(lowerFileName, n)
  THEN "config"
  ELSE IF \/ \E d \in {"enrich", "extract", "schema", "schemas", "summarize", "acorn", "tsc",
                       "resolve", "transpile"} : pathIncludesDir(lowerPath, d)
          \/ \E n \in {"extract", "schema", "enrich", "summarize", "reachable", "derive",
                       "main-result-schema"} : nameIncludes(lowerFileName, n)
  THEN "core"
  ELSE "entry"

\* the classifier with the report-to-report rule tried first
classifyEdgeInternalFirst(sourceCategory, targetCategory, sourcePath, targetPath) ==
  LET lowerSourcePath == toLowerCase(sourcePath)
      lowerTargetPath == toLowerCase(targetPath)
      either(d) == pathIncludesDir(lowerSourcePath, d) \/ pathIncludesDir(lowerTargetPath, d)
  IN
  IF sourceCategory = "report" /\ targetCategory = "report"
  THEN "internal"
  ELSE IF sourceCategory = "config" \/ targetCategory = "config" \/ either("config") \/ either("cli")
  THEN "indirect"
  ELSE IF (sourceCategory = "core" /\ targetCategory = "core") \/ either("extract") \/ either("enrich")
  THEN "processing"
  ELSE IF sourceCategory = "tool" \/ targetCategory = "tool" \/ either("utils")
  THEN "utility"
  ELSE IF pathIncludesDir(lowerSourcePath, "options") \/ pathIncludesDir(lowerTargetPath, "resolve")
  THEN "special"
  ELSE "normal"

classifyEdge(sourceCategory, targetCategory, sourcePath, targetPath) ==
  LET lowerSourcePath == toLowerCase(sourcePath)
      lowerTargetPath == toLowerCase(targetPath)
      either(d) == pathIncludesDir(lowerSourcePath, d) \/ pathIncludesDir(lowerTargetPath, d)
  IN
  IF sourceCategory = "config" \/ targetCategory = "config" \/ either("config") \/ either("cli")
  THEN "indirect"
  ELSE IF sourceCategory = "report" /\ targetCategory = "report"
  THEN "internal"
  ELSE IF (sourceCategory = "core" /\ targetCategory = "core") \/ either("extract") \/ either("enrich")
  THEN "processing"
  ELSE IF sourceCategory = "tool" \/ targetCategory = "tool" \/ either("utils")
  THEN "utility"
  ELSE IF pathIncludesDir(lowerSourcePath, "options") \/ pathIncludesDir(lowerTargetPath, "resolve")
  THEN "special"
  ELSE "normal"

getEdgeColor(edgeType) ==
  CASE edgeType = "normal" -> "#0066CC"
    [] edgeType = "processing" -> "#00AA00"
    [] edgeType = "special" -> "#CC0000"
    [] edgeType = "internal" -> "#8B00FF"
    [] edgeType = "utility" -> "#FF6600"
    [] edgeType = "indirect" -> "#0099CC"
    [] OTHER -> "#0066CC"

getEdgeStyle(edgeType) == IF edgeType = "indirect" THEN "dashed" ELSE "solid"

----------------------------------------------------------------------------
(* The file system and the text of the files *)

VARIABLES
  fs,             \* directory entries in listing order: [path, kind, content, readable]
  modules,        \* CodebaseAnalyzer.modules, a Map in insertion order
  filesToAnalyze, \* the candidate list of the running analyzeCodebase
  next,           \* index of the next candidate of the for-of loop
  pc,             \* position of analyzeCodebase: idle, extract, done, rejected, and
                  \* stale once the disk has changed after the call
  selected,       \* the selectedPaths argument of the latest analyzeCodebase call
  probeLog,       \* the resolution calls of the latest analyzeCodebase call, with the
                  \* paths each probed
  generator,      \* the kept CodebaseMermaidGenerator instance
  outputs,        \* the diagrams generate() returned, with the map they were rendered from
  held,           \* the contents the returned map had when analyzeCodebase last returned,
                  \* as a list of one element, empty before the first return
  panel           \* the webview panel of CodebaseFlowProvider: its html, the refresh
                  \* messages posted and not yet delivered, the selectedPaths of its
                  \* closure, and the updateView runs started so far

vars == <<fs, modules, filesToAnalyze, next, pc, selected, probeLog, generator, outputs, held,
          panel>>

workspaceRoot == <<SEP, "w">>

NULL == <<"null">>

fsEntry(p) == CHOOSE e \in {fs[i] : i \in 1..Len(fs)} : e.path = p

fsHas(p) == \E i \in 1..Len(fs) : fs[i].path = p

\* fs.existsSync(p)
existsSync(p) == fsHas(p)

\* fs.statSync(p).isFile()
isFile(p) == \E i \in 1..Len(fs) : fs[i].path = p /\ fs[i].kind = "file"

isDirectory(p) == \E i \in 1..Len(fs) : fs[i].path = p /\ fs[i].kind = "dir"

\* the directory a path names: the target when the path is a symbolic link
realPath(dir) ==
  IF \E i \in 1..Len(fs) : fs[i].path = dir /\ fs[i].kind = "link"
  THEN fsEntry(dir).target
  ELSE dir

\* fs.promises.readdir(dir, { withFileTypes: true }): the entries of the directory, each
\* with the path path.join(dir, entry.name); a symbolic link is listed as a link
readdir(dir) ==
  LET real == realPath(dir)
      entries == SelectSeq(fs, LAMBDA e : pathDirname(e.path) = real /\ e.path # real)
  IN [k \in 1..Len(entries) |->
        [entries[k] EXCEPT !.path = dir \o SubSeq(@, Len(real) + 1, Len(@))]]

\* fs.promises.readdir(dir) rejects (EACCES) for a directory that cannot be listed
readdirThrows(dir) == fsHas(dir) /\ ~fsEntry(dir).readable

\* fs.promises.readFile(filePath) rejects for a file that cannot be read
readFileThrows(filePath) == ~fsHas(filePath) \/ ~fsEntry(filePath).readable

\* fs.promises.readFile(filePath, "utf-8"): the import statements of the text, in text order.
\* A statement is [form, path]: form "from" is `import <bindings> from "<path>"`,
\* "require" is `require("<path>")`, "py" is a Python `import <path>` or `from <path> import ...`
readFile(filePath) == fsEntry(filePath).content

----------------------------------------------------------------------------
(* CodebaseAnalyzer *)

supportedExtensions == {".js", ".jsx", ".ts", ".tsx", ".mjs", ".cjs",
                        ".py", ".java", ".cpp", ".c", ".h", ".hpp", ".rs", ".go"}

getLanguageId(ext) ==
  CASE ext \in {".js", ".jsx", ".mjs", ".cjs"} -> "javascript"
    [] ext \in {".ts", ".tsx"} -> "typescript"
    [] ext = ".py" -> "python"
    [] ext = ".java" -> "java"
    [] ext \in {".cpp", ".cxx", ".cc", ".hpp"} -> "cpp"
    [] ext \in {".c", ".h"} -> "c"
    [] ext = ".rs" -> "rust"
    [] ext = ".go" -> "go"
    [] OTHER -> "unknown"

\* the ignore test that forgets build
ignoredNameNoBuild(name) ==
  \/ startsWithDot(name)
  \/ name = <<"node_modules">>
  \/ name = <<"dist">>
  \/ name = <<".git">>

ignoredName(name) ==
  \/ startsWithDot(name)
  \/ name = <<"node_modules">>
  \/ name = <<"dist">>
  \/ name = <<"build">>
  \/ name = <<".git">>

\* an entry test that follows symbolic links, as fs.stat does
isDirectoryFollowingLinks(entry) ==
  entry.kind = "dir" \/ (entry.kind = "link" /\ isDirectory(entry.target))

\* Dirent.isDirectory(): false for a symbolic link, whatever it points to
direntIsDirectory(entry) == entry.kind = "dir"

\* Dirent.isFile(): false for a symbolic link
direntIsFile(entry) == entry.kind = "file"

\* the concatenation of a list of lists, by halves
RECURSIVE flatten(_)
flatten(lists) ==
  IF Len(lists) = 0 THEN <<>>
  ELSE IF Len(lists) = 1 THEN lists[1]
  ELSE LET mid == Len(lists) \div 2
       IN flatten(SubSeq(lists, 1, mid)) \o flatten(SubSeq(lists, mid + 1, Len(lists)))

\* the directories walkDir calls readdir on below a list of directory entries, in
\* call order
RECURSIVE listedBelow(_)
listedBelow(entries) ==
  flatten([k \in 1..Len(entries) |->
             LET entry == entries[k]
             IN IF ignoredName(pathBasename(entry.path)) \/ ~direntIsDirectory(entry)
                THEN <<>>
                ELSE <<entry.path>>
                     \o (IF readdirThrows(entry.path) THEN <<>>
                         ELSE listedBelow(readdir(entry.path)))])

\* every readdir call of getAllSupportedFiles
listedDirs == <<workspaceRoot>> \o listedBelow(readdir(workspaceRoot))

\* walkDir of getAllSupportedFiles over a list of directory entries: what the loop body
\* pushes for each entry, in entry order
RECURSIVE walkEntries(_)
walkEntries(entries) ==
  flatten([k \in 1..Len(entries) |->
             LET entry == entries[k]
                 name == pathBasename(entry.path)
             IN IF ignoredName(name) THEN <<>>
                ELSE IF direntIsDirectory(entry)
                     THEN IF readdirThrows(entry.path) THEN <<>>   \* caught in walkDir
                          ELSE walkEntries(readdir(entry.path))
                ELSE IF direntIsFile(entry) /\ pathExtname(name) \in supportedExtensions
                     THEN <<entry.path>>
                ELSE <<>>])

getAllSupportedFiles == walkEntries(readdir(workspaceRoot))

\* fileRelative.startsWith("..")
startsWithDotDot(s) == Len(s) >= 2 /\ s[1] = "." /\ s[2] \in DotToks

\* insertion into a Set: the elements of s not in `seen`, each at its first position
dedup(s, seen) ==
  LET keep == SelectSeq([k \in 1..Len(s) |-> k],
                        LAMBDA k : s[k] \notin seen /\ \A m \in 1..(k - 1) : s[m] # s[k])
  IN [r \in 1..Len(keep) |-> s[keep[r]]]

\* the files one selected path contributes
filesOfSelected(selectedPath) ==
  IF isFile(selectedPath) THEN <<selectedPath>>
  ELSE IF isDirectory(selectedPath)
  THEN SelectSeq(getAllSupportedFiles,
                 LAMBDA file : LET fileRelative == pathRelative(selectedPath, file)
                               IN ~startsWithDotDot(fileRelative) /\ ~startsWithSep(fileRelative))
  ELSE <<>>

RECURSIVE concatSelected(_)
concatSelected(selectedPaths) ==
  IF selectedPaths = <<>> THEN <<>>
  ELSE filesOfSelected(Head(selectedPaths)) \o concatSelected(Tail(selectedPaths))

\* fs.promises.stat(selectedPath) throws for a path that does not exist
statThrows(selectedPaths) == \E i \in 1..Len(selectedPaths) : ~fsHas(selectedPaths[i])

getFilesFromPaths(selectedPaths) == dedup(concatSelected(selectedPaths), {})

\* the extension list with .ts tried before .js
extensionsTsFirst == <<"", ".ts", ".js", ".jsx", ".tsx", ".mjs", ".cjs">>

\* the suffixes of the extension probing and the names of the index fallback
extensions == <<"", ".js", ".ts", ".jsx", ".tsx", ".mjs", ".cjs">>
indexExtensions == << <<"index", ".js">>, <<"index", ".ts">>, <<"index", ".jsx">>, <<"index", ".tsx">> >>

withExt(resolved, ext) == IF ext = "" THEN resolved ELSE Append(resolved, ext)

\* a probing loop returns [res, probed]: the result and the paths handed to fs.existsSync
RECURSIVE probeExtensions(_, _)
probeExtensions(resolved, exts) ==
  IF exts = <<>> THEN [res |-> NULL, probed |-> <<>>]
  ELSE LET w == withExt(resolved, Head(exts)) IN
       IF existsSync(w) /\ isFile(w) THEN [res |-> w, probed |-> <<w>>]
       ELSE LET r == probeExtensions(resolved, Tail(exts))
            IN [res |-> r.res, probed |-> <<w>> \o r.probed]

RECURSIVE probeIndex(_, _)
probeIndex(resolved, idx) ==
  IF idx = <<>> THEN [res |-> NULL, probed |-> <<>>]
  ELSE LET indexPath == pathJoin(resolved, Head(idx)) IN
       IF existsSync(indexPath) THEN [res |-> indexPath, probed |-> <<indexPath>>]
       ELSE LET r == probeIndex(resolved, Tail(idx))
            IN [res |-> r.res, probed |-> <<indexPath>> \o r.probed]

\* resolveModulePath that probes a package name like a relative path
resolveModulePathNoExternal(modulePath, fromFile) ==
  LET fromDir == pathDirname(fromFile)
      resolved == IF startsWithSep(modulePath)
                  THEN pathJoin(workspaceRoot, modulePath)
                  ELSE pathResolve(fromDir, modulePath)
      byExt == probeExtensions(resolved, extensions)
      byIndex == probeIndex(resolved, indexExtensions)
  IN IF byExt.res # NULL THEN byExt
     ELSE [res |-> byIndex.res, probed |-> byExt.probed \o byIndex.probed]

\* resolveModulePath that tries the index files before the file candidates
resolveModulePathIndexFirst(modulePath, fromFile) ==
  IF ~startsWithDot(modulePath) /\ ~startsWithSep(modulePath)
  THEN [res |-> NULL, probed |-> <<>>]
  ELSE LET fromDir == pathDirname(fromFile)
           resolved == IF startsWithSep(modulePath)
                       THEN pathJoin(workspaceRoot, modulePath)
                       ELSE pathResolve(fromDir, modulePath)
           byExt == probeExtensions(resolved, extensions)
           byIndex == probeIndex(resolved, indexExtensions)
       IN IF byIndex.res # NULL THEN byIndex
          ELSE [res |-> byExt.res, probed |-> byIndex.probed \o byExt.probed]

resolveModulePathP(modulePath, fromFile) ==
  IF ~startsWithDot(modulePath) /\ ~startsWithSep(modulePath)
  THEN [res |-> NULL, probed |-> <<>>]
  ELSE LET fromDir == pathDirname(fromFile)
           resolved == IF startsWithSep(modulePath)
                       THEN pathJoin(workspaceRoot, modulePath)
                       ELSE pathResolve(fromDir, modulePath)
           byExt == probeExtensions(resolved, extensions)
           byIndex == probeIndex(resolved, indexExtensions)
       IN IF byExt.res # NULL THEN byExt
          ELSE [res |-> byIndex.res, probed |-> byExt.probed \o byIndex.probed]

resolveModulePath(modulePath, fromFile) == resolveModulePathP(modulePath, fromFile).res

\* modulePath.replace(/\./g, path.sep): every dot becomes a separator
dotRest(t) ==
  CASE t = "." -> <<>>
    [] t = ".py" -> <<"py">>
    [] t = ".ts" -> <<"ts">>
    [] t = ".js" -> <<"js">>
    [] OTHER -> <<t>>

RECURSIVE replaceDots(_)
replaceDots(s) ==
  IF s = <<>> THEN <<>>
  ELSE (IF Head(s) \in DotToks THEN <<SEP>> \o dotRest(Head(s)) ELSE <<Head(s)>>)
       \o replaceDots(Tail(s))

resolvePythonModuleP(modulePath, fromFile) ==
  IF ~includesSep(modulePath)   \* no "/" (and no "\\", which no text of the model contains)
  THEN [res |-> NULL, probed |-> <<>>]
  ELSE LET fromDir == pathDirname(fromFile)
           resolved == IF startsWithDot(modulePath)
                       THEN pathResolve(fromDir, replaceDots(modulePath))
                       ELSE pathResolve(workspaceRoot, replaceDots(modulePath))
           wExt == Append(resolved, ".py")
           initPath == pathJoin(resolved, <<"__init__", ".py">>)
       IN IF existsSync(wExt) /\ isFile(wExt) THEN [res |-> wExt, probed |-> <<wExt>>]
          ELSE IF existsSync(initPath) THEN [res |-> initPath, probed |-> <<wExt, initPath>>]
          ELSE [res |-> NULL, probed |-> <<wExt, initPath>>]

resolvePythonModule(modulePath, fromFile) == resolvePythonModuleP(modulePath, fromFile).res

\* match[1].split(" ")[0].split(".")[0]: the text before the first dot
RECURSIVE beforeFirstDot(_)
beforeFirstDot(s) ==
  IF s = <<>> \/ Head(s) \in DotToks THEN <<>>
  ELSE <<Head(s)>> \o beforeFirstDot(Tail(s))

Dependency(modulePath, resolved, type) ==
  [module |-> modulePath, resolved |-> resolved, dependencyTypes |-> <<type>>,
   valid |-> resolved # NULL]

\* the matches of one regular expression, in text order
jsMatches(content, form) == SelectSeq(content, LAMBDA st : st.form = form)

extractDependencies(content, filePath, languageId) ==
  IF languageId \in {"typescript", "javascript"}
  THEN LET imports == jsMatches(content, "from")
           requires == jsMatches(content, "require")
       IN [i \in 1..Len(imports) |->
             Dependency(imports[i].path, resolveModulePath(imports[i].path, filePath), "import")]
          \o
          [i \in 1..Len(requires) |->
             Dependency(requires[i].path, resolveModulePath(requires[i].path, filePath), "require")]
  ELSE IF languageId = "python"
  THEN LET stmts == jsMatches(content, "py")
       IN [i \in 1..Len(stmts) |->
             LET modulePath == beforeFirstDot(stmts[i].path)
             IN Dependency(modulePath, resolvePythonModule(modulePath, filePath), "import")]
  ELSE <<>>

\* the resolution calls extractDependencies makes, in call order
resolutionCalls(content, filePath, languageId) ==
  IF languageId \in {"typescript", "javascript"}
  THEN LET ms == jsMatches(content, "from") \o jsMatches(content, "require")
       IN [i \in 1..Len(ms) |->
             [file |-> filePath, module |-> ms[i].path,
              probed |-> resolveModulePathP(ms[i].path, filePath).probed]]
  ELSE IF languageId = "python"
  THEN LET stmts == jsMatches(content, "py")
       IN [i \in 1..Len(stmts) |->
             LET modulePath == beforeFirstDot(stmts[i].path)
             IN [file |-> filePath, module |-> modulePath,
                 probed |-> resolvePythonModuleP(modulePath, filePath).probed]]
  ELSE <<>>

\* analyzeFile for a file whose content can be read (functions and exports,
\* informational lists that no graph step reads, are left out of the record)
analyzeFile(filePath) ==
  LET content == readFile(filePath)
      relativePath == pathRelative(workspaceRoot, filePath)
      fileName == pathBasename(filePath)
      ext == pathExtname(filePath)
      languageId == getLanguageId(ext)
  IN [source |-> filePath,
      relativePath |-> relativePath,
      fileName |-> fileName,
      languageId |-> languageId,
      fileCategory |-> classifyFile(relativePath, fileName),
      dependencies |-> extractDependencies(content, filePath, languageId),
      dependents |-> <<>>]

\* Map.prototype.set on a map kept as a sequence of values keyed by .source
mapHas(map, key) == \E i \in 1..Len(map) : map[i].source = key

mapIndex(map, key) == CHOOSE i \in 1..Len(map) : map[i].source = key

mapSet(map, value) ==
  IF mapHas(map, value.source)
  THEN [map EXCEPT ![mapIndex(map, value.source)] = value]
  ELSE Append(map, value)

mapKeys(map) == {map[i].source : i \in 1..Len(map)}

\* JavaScript truthiness of `dep.resolved`
truthy(resolved) == resolved # NULL /\ resolved # <<>>

\* linkDeps without the `includes` test: every resolving dependency pushes a backlink
RECURSIVE linkDepsDup(_, _, _)
linkDepsDup(map, source, deps) ==
  IF deps = <<>> THEN map
  ELSE LET dep == Head(deps) IN
       IF truthy(dep.resolved) /\ mapHas(map, dep.resolved)
       THEN linkDepsDup([map EXCEPT ![mapIndex(map, dep.resolved)].dependents = Append(@, source)],
                        source, Tail(deps))
       ELSE linkDepsDup(map, source, Tail(deps))

\* linkDeps that leaves out a dependency of a module on itself
RECURSIVE linkDepsSkipSelf(_, _, _)
linkDepsSkipSelf(map, source, deps) ==
  IF deps = <<>> THEN map
  ELSE LET dep == Head(deps) IN
       IF truthy(dep.resolved) /\ mapHas(map, dep.resolved) /\ dep.resolved # source
       THEN LET k == mapIndex(map, dep.resolved)
            IN IF \E j \in 1..Len(map[k].dependents) : map[k].dependents[j] = source
               THEN linkDepsSkipSelf(map, source, Tail(deps))
               ELSE linkDepsSkipSelf([map EXCEPT ![k].dependents = Append(@, source)],
                                     source, Tail(deps))
       ELSE linkDepsSkipSelf(map, source, Tail(deps))

\* the inner loop of resolveDependencies: the dependencies of one module
RECURSIVE linkDeps(_, _, _)
linkDeps(map, source, deps) ==
  IF deps = <<>> THEN map
  ELSE LET dep == Head(deps) IN
       IF truthy(dep.resolved) /\ mapHas(map, dep.resolved)
       THEN LET k == mapIndex(map, dep.resolved)
                dependentModule == map[k]
            IN IF \E j \in 1..Len(dependentModule.dependents) :
                     dependentModule.dependents[j] = source
               THEN linkDeps(map, source, Tail(deps))
               ELSE linkDeps([map EXCEPT ![k].dependents = Append(@, source)],
                             source, Tail(deps))
       ELSE linkDeps(map, source, Tail(deps))

\* the outer loop, over the entries of the map from position i on
RECURSIVE linkFrom(_, _)
linkFrom(map, i) ==
  IF i > Len(map) THEN map
  ELSE linkFrom(linkDeps(map, map[i].source, map[i].dependencies), i + 1)

\* linking that also drops the dependencies that did not resolve
resolveDependenciesPruning(map) ==
  LET linked == linkFrom(map, 1)
  IN [i \in 1..Len(linked) |->
        [linked[i] EXCEPT !.dependencies = SelectSeq(@, LAMBDA dep : dep.valid)]]

resolveDependencies(map) == linkFrom(map, 1)

----------------------------------------------------------------------------
(* CodebaseMermaidGenerator (minify = true, the only mode the builder uses) *)

base == 36

digits == <<"0", "1", "2", "3", "4", "5", "6", "7", "8", "9",
            "A", "B", "C", "D", "E", "F", "G", "H", "I", "J", "K", "L", "M",
            "N", "O", "P", "Q", "R", "S", "T", "U", "V", "W", "X", "Y", "Z">>

\* count.toString(base).toUpperCase()
RECURSIVE toStringBase(_)
toStringBase(n) ==
  IF n < base THEN <<digits[n + 1]>>
  ELSE toStringBase(n \div base) \o <<digits[(n % base) + 1]>>

\* IDs numbered from 1
hashedIdOfFromOne(count) == <<"N">> \o toStringBase(count + 1)

hashedIdOf(count) == <<"N">> \o toStringBase(count)

\* a Map from strings to IDs, kept as a function
emptyMap == [k \in {} |-> <<>>]

mapGetOr(m, k, default) == IF k \in DOMAIN m THEN m[k] ELSE default

UNDEFINED == <<"undefined">>

\* the directory prefixes and the full relative path of one module, in registration order
prefixesOf(relativePath) ==
  LET paths == pathParts(relativePath)
  IN [i \in 1..Len(paths) |-> joinSep(SubSeq(paths, 1, i))] \o <<relativePath>>

\* first loop of hashModuleNames: what is added to allPaths, module after module
allPathsOf(map) == flatten([k \in 1..Len(map) |-> prefixesOf(map[k].relativePath)])

\* the second loop without the `has` guard, numbering by the size of the table
RECURSIVE assignIdsBySize(_, _, _)
assignIdsBySize(names, count, todo) ==
  IF todo = <<>> THEN names
  ELSE assignIdsBySize((Head(todo) :> hashedIdOf(Cardinality(DOMAIN names))) @@ names,
                       count, Tail(todo))

\* second loop of hashModuleNames: the table after the paths of `todo`
RECURSIVE assignIds(_, _, _)
assignIds(names, count, todo) ==
  IF todo = <<>> THEN names
  ELSE IF Head(todo) \in DOMAIN names
       THEN assignIds(names, count, Tail(todo))
       ELSE assignIds((Head(todo) :> hashedIdOf(count)) @@ names, count + 1, Tail(todo))

\* Map.prototype.set on nodeIdToModule, a sequence of [id, module] in insertion order
nodeMapSet(nm, id, module) ==
  IF \E i \in 1..Len(nm) : nm[i].id = id
  THEN [nm EXCEPT ![CHOOSE i \in 1..Len(nm) : nm[i].id = id].module = module]
  ELSE Append(nm, [id |-> id, module |-> module])

nodeMapHas(nm, id) == \E i \in 1..Len(nm) : nm[i].id = id

nodeMapGet(nm, id) == nm[CHOOSE i \in 1..Len(nm) : nm[i].id = id].module

\* the third loop without this.nodeIdToModule.set
RECURSIVE mapAbsoluteNoRegister(_, _)
mapAbsoluteNoRegister(gen, map) ==
  IF map = <<>> THEN gen
  ELSE LET module == Head(map)
           hashedId == mapGetOr(gen.namesHashMap, module.relativePath, UNDEFINED)
       IN IF hashedId # UNDEFINED
          THEN mapAbsoluteNoRegister(
                 [namesHashMap |-> (module.source :> hashedId) @@ gen.namesHashMap,
                  nodeIdToModule |-> gen.nodeIdToModule],
                 Tail(map))
          ELSE mapAbsoluteNoRegister(gen, Tail(map))

\* third loop of hashModuleNames
RECURSIVE mapAbsolute(_, _)
mapAbsolute(gen, map) ==
  IF map = <<>> THEN gen
  ELSE LET module == Head(map)
           hashedId == mapGetOr(gen.namesHashMap, module.relativePath, UNDEFINED)
       IN IF hashedId # UNDEFINED
          THEN mapAbsolute([namesHashMap |-> (module.source :> hashedId) @@ gen.namesHashMap,
                            nodeIdToModule |-> nodeMapSet(gen.nodeIdToModule, hashedId, module)],
                           Tail(map))
          ELSE mapAbsolute(gen, Tail(map))

hashModuleNames(gen, map) ==
  mapAbsolute([namesHashMap |-> assignIds(gen.namesHashMap, 0, dedup(allPathsOf(map), {})),
               nodeIdToModule |-> gen.nodeIdToModule],
              map)

\* property names every plain object inherits from Object.prototype with a truthy value
protoNames == {"constructor", "toString", "valueOf", "hasOwnProperty", "__proto__"}

inherited(seg) == Len(seg) = 1 /\ seg[1] \in protoNames

\* The tree of convertSubgraphSources is kept flat: one entry [chain, node, text] per
\* created object, in creation order; chain is the list of keys from the root.
treeHas(tree, chain) == \E i \in 1..Len(tree) : tree[i].chain = chain

\* the reducer over the segments of one module from position i on; `defined` tells
\* whether the accumulator `children` is an object
RECURSIVE reducePath(_, _, _, _, _)
reducePath(names, tree, paths, i, defined) ==
  IF i > Len(paths) THEN [ok |-> TRUE, tree |-> tree]
  ELSE IF ~defined THEN [ok |-> FALSE, tree |-> tree]   \* TypeError: children is undefined
  ELSE LET chain == SubSeq(paths, 1, i)
           currentPath == paths[i]
       IN IF inherited(currentPath)
          THEN reducePath(names, tree, paths, i + 1, FALSE)
          ELSE IF treeHas(tree, chain)
          THEN reducePath(names, tree, paths, i + 1, TRUE)
          ELSE reducePath(names,
                          Append(tree, [chain |-> chain,
                                        node |-> mapGetOr(names, joinSep(chain), UNDEFINED),
                                        text |-> currentPath]),
                          paths, i + 1, TRUE)

RECURSIVE subgraphSources(_, _, _)
subgraphSources(names, tree, map) ==
  IF map = <<>> THEN [ok |-> TRUE, tree |-> tree]
  ELSE LET r == reducePath(names, tree, pathParts(map[1].relativePath), 1, TRUE)
       IN IF r.ok THEN subgraphSources(names, r.tree, Tail(map)) ELSE r

convertSubgraphSources(gen, map) == subgraphSources(gen.namesHashMap, <<>>, map)

\* the duplicate test that looks at the target only
edgeExistsByTarget(edges, fromNode, toNode) ==
  \E i \in 1..Len(edges) : edges[i].to.node = toNode

edgeExists(edges, fromNode, toNode) ==
  \E i \in 1..Len(edges) : edges[i].from.node = fromNode /\ edges[i].to.node = toNode

\* the dependency loop without the test that the target has an ID
RECURSIVE edgesOfDepsNoIdTest(_, _, _, _)
edgesOfDepsNoIdTest(names, edges, from, deps) ==
  IF deps = <<>> THEN edges
  ELSE LET dep == Head(deps)
           toNode == mapGetOr(names, dep.resolved, UNDEFINED)
       IN IF truthy(dep.resolved) /\ dep.valid /\ ~edgeExists(edges, from.node, toNode)
          THEN edgesOfDepsNoIdTest(names,
                                   Append(edges, [from |-> from,
                                                  to |-> [node |-> toNode,
                                                          text |-> pathBasename(dep.resolved)]]),
                                   from, Tail(deps))
          ELSE edgesOfDepsNoIdTest(names, edges, from, Tail(deps))

RECURSIVE edgesOfDeps(_, _, _, _)
edgesOfDeps(names, edges, from, deps) ==
  IF deps = <<>> THEN edges
  ELSE LET dep == Head(deps)
           toNode == mapGetOr(names, dep.resolved, UNDEFINED)
       IN IF truthy(dep.resolved) /\ dep.valid /\ toNode # UNDEFINED
             /\ ~edgeExists(edges, from.node, toNode)
          THEN edgesOfDeps(names,
                           Append(edges, [from |-> from,
                                          to |-> [node |-> toNode,
                                                  text |-> pathBasename(dep.resolved)]]),
                           from, Tail(deps))
          ELSE edgesOfDeps(names, edges, from, Tail(deps))

RECURSIVE edgeSources(_, _, _)
edgeSources(names, edges, map) ==
  IF map = <<>> THEN edges
  ELSE LET module == Head(map)
           fromNode == mapGetOr(names, module.source, UNDEFINED)
       IN IF fromNode = UNDEFINED THEN edgeSources(names, edges, Tail(map))
          ELSE edgeSources(names,
                           edgesOfDeps(names, edges,
                                       [node |-> fromNode,
                                        text |-> pathBasename(module.relativePath)],
                                       module.dependencies),
                           Tail(map))

convertEdgeSources(gen, map) == edgeSources(gen.namesHashMap, <<>>, map)

\* escapeMermaidText, token by token
escapeTok(t) ==
  CASE t = "\"" -> "#quot;"
    [] t = "<" -> "#60;"
    [] t = ">" -> "#62;"
    [] t = "\n" -> " "
    [] OTHER -> t

escapeMermaidText(text) == [i \in 1..Len(text) |-> escapeTok(text[i])]

\* the label part of renderNode
renderLabel(text) == IF Len(text) > 0 THEN escapeMermaidText(text) ELSE <<" ">>

childrenOf(tree, chain) ==
  SelectSeq(tree, LAMBDA n : Len(n.chain) = Len(chain) + 1
                             /\ SubSeq(n.chain, 1, Len(chain)) = chain)

\* renderSubgraphs: the lines of the items in `items`, the tree being `tree`
RECURSIVE renderItems(_, _)
renderItems(tree, items) ==
  flatten([k \in 1..Len(items) |->
             LET item == items[k]
                 children == renderItems(tree, childrenOf(tree, item.chain))
             IN IF children = <<>>
                THEN << <<"node", item.node, renderLabel(item.text)>> >>
                ELSE << <<"subgraph", item.node, renderLabel(item.text)>> >>
                     \o children \o << <<"end">> >>])

renderSubgraphs(tree) == renderItems(tree, childrenOf(tree, <<>>))

renderEdges(edges) == [i \in 1..Len(edges) |-> <<edges[i].from.node, "-->", edges[i].to.node>>]

getNodeStyleClass(category) ==
  CASE category = "core" -> "coreStyle"
    [] category = "report" -> "reportStyle"
    [] category = "config" -> "configStyle"
    [] category = "tool" -> "toolStyle"
    [] OTHER -> "entryStyle"

renderNodeStyles(gen) ==
  [i \in 1..Len(gen.nodeIdToModule) |->
     <<"class", gen.nodeIdToModule[i].id,
       getNodeStyleClass(gen.nodeIdToModule[i].module.fileCategory)>>]

\* the directive renderEdgeStyles emits for one edge at position edgeIndex
linkStyleOf(gen, edge, edgeIndex) ==
  IF nodeMapHas(gen.nodeIdToModule, edge.from.node) /\ nodeMapHas(gen.nodeIdToModule, edge.to.node)
  THEN LET fromModule == nodeMapGet(gen.nodeIdToModule, edge.from.node)
           toModule == nodeMapGet(gen.nodeIdToModule, edge.to.node)
           edgeType == classifyEdge(fromModule.fileCategory, toModule.fileCategory,
                                    fromModule.relativePath, toModule.relativePath)
       IN [index |-> edgeIndex, stroke |-> getEdgeColor(edgeType),
           dashed |-> getEdgeStyle(edgeType) = "dashed"]
  ELSE [index |-> edgeIndex, stroke |-> "#0066CC", dashed |-> FALSE]

\* edges.forEach with an index counted from edgeIndex
edgeStylesFrom(gen, edges, edgeIndex) ==
  [k \in 1..Len(edges) |-> linkStyleOf(gen, edges[k], edgeIndex + k - 1)]

\* the style pass over the edges sorted the other way round
renderEdgeStylesResorted(gen, edges) ==
  edgeStylesFrom(gen, [k \in 1..Len(edges) |-> edges[Len(edges) + 1 - k]], 0)

renderEdgeStyles(gen, edges) == edgeStylesFrom(gen, edges, 0)

\* generate(): the generator afterwards and the diagram, or the TypeError of the reducer
generate(gen, map) ==
  LET g == hashModuleNames(gen, map)
      subgraphs == convertSubgraphSources(g, map)
      edges == convertEdgeSources(g, map)
  IN IF ~subgraphs.ok
     THEN [gen |-> g, ok |-> FALSE, text |-> [error |-> "TypeError"]]
     ELSE [gen |-> g, ok |-> TRUE,
           text |-> [classDefs |-> "classDefs",
                     subgraphs |-> renderSubgraphs(subgraphs.tree),
                     edges |-> renderEdges(edges),
                     nodeStyles |-> renderNodeStyles(g),
                     edgeStyles |-> renderEdgeStyles(g, edges)]]

newGenerator == [namesHashMap |-> emptyMap, nodeIdToModule |-> <<>>]

\* CodebaseGraphBuilder.generateMermaid
generateMermaid(map) == generate(newGenerator, map)

----------------------------------------------------------------------------
(* The workspaces and file texts of the model *)

P(segs) == absOf(segs)

srcA == P(<< <<"src">>, <<"a", ".ts">> >>)
srcB == P(<< <<"src">>, <<"b">> >>)
srcBjs == P(<< <<"src">>, <<"b", ".js">> >>)
srcBts == P(<< <<"src">>, <<"b", ".ts">> >>)
srcBIndexJs == P(<< <<"src">>, <<"b">>, <<"index", ".js">> >>)
srcBIndexTs == P(<< <<"src">>, <<"b">>, <<"index", ".ts">> >>)
srcConfig == P(<< <<"src">>, <<"config", ".ts">> >>)
srcDistD == P(<< <<"src">>, <<"dist">>, <<"d", ".js">> >>)
srcProtoK == P(<< <<"src">>, <<"constructor">>, <<"k", ".ts">> >>)
pkgMod == P(<< <<"pkg">>, <<"mod", ".py">> >>)
pkgUtils == P(<< <<"pkg">>, <<"utils", ".py">> >>)

W(p) == workspaceRoot \o p

Stmt(form, path) == [form |-> form, path |-> path]

\* import {x} from "./b" and the other statements a.ts is written from
importB == Stmt("from", <<".", SEP, "b">>)
requireB == Stmt("require", <<".", SEP, "b">>)
importLodash == Stmt("from", <<"lodash">>)
importSelf == Stmt("from", <<".", SEP, "a">>)
importDist == Stmt("from", <<".", SEP, "dist", SEP, "d">>)
importRooted == Stmt("from", <<SEP, "src", SEP, "b">>)

\* import "./b": an import for its side effects, without bindings and without from
importSideB == Stmt("side", <<".", SEP, "b">>)

JsStatements == {importB, requireB, importLodash, importSelf, importDist}

\* from utils import helper, import os.path, import pkg/utils
fromUtils == Stmt("py", <<"utils">>)
importOsPath == Stmt("py", <<"os", ".path">>)
importSlashed == Stmt("py", <<"pkg", SEP, "utils">>)

PyStatements == {fromUtils, importOsPath, importSlashed}

SeqsUpTo(S, n) == UNION {[1..k -> S] : k \in 0..n}

Kinds == {"none", "file", "dir"}

Entry(path, kind, content) ==
  [path |-> W(path), kind |-> kind, content |-> content, readable |-> TRUE]

\* the same entry without read permission
Locked(path, kind, content) ==
  [path |-> W(path), kind |-> kind, content |-> content, readable |-> FALSE]

optEntry(path, kind) == IF kind = "none" THEN <<>> ELSE <<Entry(path, kind, <<>>)>>

\* the workspace with the chosen optional entries, in directory listing order
Workspace(b, bIndexJs, bIndexTs, bJs, bTs, utils, proto, textA, textMod) ==
  << Entry(P(<< <<"pkg">> >>), "dir", <<>>),
     Entry(pkgMod, "file", textMod) >>
  \o optEntry(pkgUtils, utils)
  \o << Entry(P(<< <<"src">> >>), "dir", <<>>),
        Entry(srcA, "file", textA) >>
  \o optEntry(srcB, b)
  \o (IF b = "dir" THEN optEntry(srcBIndexJs, bIndexJs) \o optEntry(srcBIndexTs, bIndexTs)
      ELSE <<>>)
  \o optEntry(srcBjs, bJs)
  \o optEntry(srcBts, bTs)
  \o << Entry(srcConfig, "file", <<requireB>>) >>
  \o (IF proto
      THEN << Entry(P(<< <<"src">>, <<"constructor">> >>), "dir", <<>>),
              Entry(srcProtoK, "file", <<>>) >>
      ELSE <<>>)
  \o << Entry(P(<< <<"src">>, <<"dist">> >>), "dir", <<>>),
        Entry(srcDistD, "file", <<>>) >>

\* every layout of src/b*, a.ts holding one statement that names b
JsLayoutWorkspaces ==
  { Workspace(b, ijs, its, bJs, bTs, "file", FALSE, <<st>>, <<fromUtils>>) :
      b \in Kinds, ijs \in Kinds, its \in {"none", "file"},
      bJs \in Kinds, bTs \in {"none", "file"},
      st \in {importB, importRooted} }

\* a.ts being any text of at most MaxDeps statements: src/b.ts present, nothing of
\* src/b* present, only src/b/index.ts present
JsTextWorkspaces ==
  { Workspace(l[1], "none", l[2], "none", l[3], "file", FALSE, textA, <<fromUtils>>) :
      l \in {<<"none", "none", "file">>, <<"none", "none", "none">>, <<"dir", "file", "none">>},
      textA \in SeqsUpTo(JsStatements, MaxDeps) }

JsWorkspaces == JsLayoutWorkspaces \cup JsTextWorkspaces

\* the Python package, mod.py being any text of at most MaxDeps statements
PyWorkspaces ==
  { Workspace("none", "none", "none", "none", "file", utils, FALSE, <<importB>>, textMod) :
      utils \in {"none", "file"}, textMod \in SeqsUpTo(PyStatements, MaxDeps) }

\* a directory named like a property of Object.prototype
ProtoWorkspaces ==
  { Workspace("none", "none", "none", "none", "file", "file", TRUE, textA, <<fromUtils>>) :
      textA \in SeqsUpTo(JsStatements, 1) }

\* a.ts with an import for its side effects, alone and next to other statements
SideEffectWorkspaces ==
  { Workspace("none", "none", "none", "none", "file", "file", FALSE, textA, <<fromUtils>>) :
      textA \in {<<importSideB>>, <<importSideB, requireB>>, <<importB, importSideB>>} }

Workspaces == JsWorkspaces \cup PyWorkspaces \cup ProtoWorkspaces \cup SideEffectWorkspaces

\* A source tree with ignored names at three depths, files of several extensions and
\* entries without read permission: src cannot be listed when ~listSrc, a.ts, u.js and
\* lib/y.py cannot be read when their flag is FALSE.
srcU == P(<< <<"src">>, <<"u", ".js">> >>)
srcLibY == P(<< <<"src">>, <<"lib">>, <<"y", ".py">> >>)
srcLibBuildO == P(<< <<"src">>, <<"lib">>, <<"build">>, <<"o", ".ts">> >>)
srcNcc == P(<< <<"src">>, <<"n", ".cc">> >>)
srcReadme == P(<< <<"src">>, <<"readme", ".md">> >>)
srcEslintrc == P(<< <<"src">>, <<".eslintrc", ".js">> >>)
gitHook == P(<< <<".git">>, <<"hook", ".js">> >>)
nodeModulesM == P(<< <<"node_modules">>, <<"m", ".js">> >>)
rootZ == P(<< <<"z", ".go">> >>)

importU == Stmt("from", <<".", SEP, "u">>)

File(path, content, readable) ==
  IF readable THEN Entry(path, "file", content) ELSE Locked(path, "file", content)

Dir(path, readable) ==
  IF readable THEN Entry(path, "dir", <<>>) ELSE Locked(path, "dir", <<>>)

\* a symbolic link to a directory
Link(path, target) ==
  [path |-> W(path), kind |-> "link", content |-> <<>>, readable |-> TRUE,
   target |-> W(target)]

\* src/lib/up, a link back to src
srcLibUp == P(<< <<"src">>, <<"lib">>, <<"up">> >>)

TreeWorkspace(listSrc, readA, readU, readY) ==
  << Dir(P(<< <<".git">> >>), TRUE),
     File(gitHook, <<>>, TRUE),
     Dir(P(<< <<"node_modules">> >>), TRUE),
     File(nodeModulesM, <<>>, TRUE),
     Dir(P(<< <<"src">> >>), listSrc),
     File(srcEslintrc, <<>>, TRUE),
     File(srcA, <<importU>>, readA),
     Dir(P(<< <<"src">>, <<"dist">> >>), TRUE),
     File(srcDistD, <<>>, TRUE),
     Dir(P(<< <<"src">>, <<"lib">> >>), TRUE),
     Dir(P(<< <<"src">>, <<"lib">>, <<"build">> >>), TRUE),
     File(srcLibBuildO, <<>>, TRUE),
     Link(srcLibUp, P(<< <<"src">> >>)),
     File(srcLibY, <<>>, readY),
     File(srcNcc, <<>>, TRUE),
     File(srcReadme, <<>>, TRUE),
     File(srcU, <<importSelf>>, readU),
     File(rootZ, <<>>, TRUE) >>

TreeWorkspaces ==
  { TreeWorkspace(listSrc, readA, readU, readY) :
      listSrc \in BOOLEAN, readA \in BOOLEAN, readU \in BOOLEAN, readY \in BOOLEAN }

\* one file, named after the needles of the classifier, in a directory named after them,
\* the directory lying under src or directly under the workspace root
ClassifyDirs == {"report", "tools", "config", "extract", "main", "lib"}

ClassifyNames == { <<"index", ".ts">>, <<"report", ".ts">>, <<"hotspots", ".ts">>,
                   <<"config", ".ts">>, <<"Config", ".ts">>, <<"extract", ".ts">>,
                   <<"options", ".ts">>, <<"a", ".ts">>, <<"index", ".cjs">>,
                   <<"__init__", ".py">> }

ClassifyWorkspace(nested, dir, name) ==
  IF nested
  THEN << Dir(P(<< <<"src">> >>), TRUE),
          Dir(P(<< <<"src">>, <<dir>> >>), TRUE),
          File(P(<< <<"src">>, <<dir>>, name >>), <<>>, TRUE) >>
  ELSE << Dir(P(<< <<dir>> >>), TRUE),
          File(P(<< <<dir>>, name >>), <<>>, TRUE) >>

ClassifyWorkspaces ==
  { ClassifyWorkspace(nested, dir, name) :
      nested \in BOOLEAN, dir \in ClassifyDirs, name \in ClassifyNames }

AnalyzerWorkspaces == TreeWorkspaces \cup ClassifyWorkspaces

\* the (directory, file name) pairs two connected files are placed at: plain, report,
\* core, tool and config files, and report, entry and core files whose directory is one
\* an edge rule names
EdgeEnds == { <<"lib", "a">>, <<"lib", "report">>, <<"lib", "extract">>,
              <<"lib", "hotspots">>, <<"lib", "config">>, <<"config", "report">>,
              <<"extract", "report">>, <<"utils", "report">>, <<"options", "a">>,
              <<"resolve", "a">> }

edgeEndPath(e) == P(<< <<"src">>, <<e[1]>>, <<e[2], ".ts">> >>)

\* import {x} from "../<dir>/<name>"
importEnd(e) == Stmt("from", <<".", ".", SEP, e[1], SEP, e[2]>>)

\* src/<dir>/<name>.ts of x importing that of y
EdgeWorkspace(x, y) ==
  << Dir(P(<< <<"src">> >>), TRUE),
     Dir(P(<< <<"src">>, <<x[1]>> >>), TRUE),
     File(edgeEndPath(x), <<importEnd(y)>>, TRUE) >>
  \o (IF y[1] = x[1] THEN <<>> ELSE << Dir(P(<< <<"src">>, <<y[1]>> >>), TRUE) >>)
  \o << File(edgeEndPath(y), <<>>, TRUE) >>

EdgeWorkspaces ==
  { EdgeWorkspace(p[1], p[2]) : p \in {p \in EdgeEnds \X EdgeEnds : p[1] # p[2]} }

\* the name d<k>, k written with two digits
dirD(k) == <<"d", digits[(k \div base) + 1], digits[(k % base) + 1]>>

\* src/d<k>/part/f.ts
srcF(k) == P(<< <<"src">>, dirD(k), <<"part">>, <<"f", ".ts">> >>)

\* src with Breadth directories d<k>, each holding part/f.ts: three paths to number for
\* every file, more than one base-36 digit numbers
WideWorkspace ==
  << Dir(P(<< <<"src">> >>), TRUE) >>
  \o flatten([k \in 1..Breadth |->
                << Dir(P(<< <<"src">>, dirD(k) >>), TRUE),
                   Dir(P(<< <<"src">>, dirD(k), <<"part">> >>), TRUE),
                   File(srcF(k), <<>>, TRUE) >>])

DiagramWorkspaces == EdgeWorkspaces \cup {WideWorkspace}

\* a.ts importing b.ts, for calls that follow one another on one analyzer
ReanalysisWorkspaces ==
  { Workspace("none", "none", "none", "none", "file", "file", FALSE, textA, <<fromUtils>>) :
      textA \in {<<importB>>, <<importB, importSelf>>} }

\* the files that are deleted or lose their read permission between two calls
Changeable == {W(srcBts), W(srcA)}

\* the argument of analyzeCodebase: undefined, or a list of selected paths
NoSelection == << <<"undefined">> >>

Selections == {NoSelection,
               << W(P(<< <<"src">> >>)) >>,
               << W(srcA) >>,
               << W(P(<< <<"gone">> >>)), W(srcA) >>}

AnalyzerSelections ==
  Selections \cup {<< W(P(<< <<"src">>, <<"dist">> >>)) >>,
                   << W(P(<< <<"src">>, <<"lib">> >>)) >>}

----------------------------------------------------------------------------
(* Behaviour *)

\* webview.html: the loading page, the page of the diagram a run rendered, or the
\* error page of a run
Page(page, run, text) == [page |-> page, run |-> run, text |-> text]

\* CodebaseFlowProvider before createOrShow: _panel is undefined
noPanel == [html |-> Page("none", 0, <<>>), pending |-> 0, selectedPaths |-> <<>>, runs |-> <<>>]

InitOn(workspaces) ==
  /\ fs \in workspaces
  /\ modules = <<>>
  /\ filesToAnalyze = <<>>
  /\ next = 1
  /\ pc = "idle"
  /\ selected = NoSelection
  /\ probeLog = <<>>
  /\ generator = newGenerator
  /\ outputs = <<>>
  /\ held = <<>>
  /\ panel = noPanel

Init == InitOn(Workspaces)

\* the entry without clearing the map
analyzeCodebaseEntryNoClear(selectedPaths) ==
  /\ modules' = modules
  /\ next' = 1
  /\ selected' = selectedPaths
  /\ IF selectedPaths = NoSelection
     THEN filesToAnalyze' = getAllSupportedFiles /\ pc' = "extract"
     ELSE IF statThrows(selectedPaths)
     THEN filesToAnalyze' = <<>> /\ pc' = "rejected"
     ELSE filesToAnalyze' = getFilesFromPaths(selectedPaths) /\ pc' = "extract"
  /\ probeLog' = <<>>
  /\ UNCHANGED <<fs, generator, outputs, held, panel>>

\* analyzeCodebase up to its first await in the loop: clear the map, discover the files
analyzeCodebaseEntry(selectedPaths) ==
  /\ modules' = <<>>
  /\ next' = 1
  /\ selected' = selectedPaths
  /\ IF selectedPaths = NoSelection
     THEN filesToAnalyze' = getAllSupportedFiles /\ pc' = "extract"
     ELSE IF statThrows(selectedPaths)
     THEN filesToAnalyze' = <<>> /\ pc' = "rejected"
     ELSE filesToAnalyze' = getFilesFromPaths(selectedPaths) /\ pc' = "extract"
  /\ probeLog' = <<>>
  /\ UNCHANGED <<fs, generator, outputs, held, panel>>

\* getModules(), and the value analyzeCodebase resolves to: the Map object of the
\* analyzer itself, whose contents at any moment are those of this.modules
getModules == modules

\* the first call of analyzeCodebase on the analyzer
AnalyzeBegin(selectedPaths) ==
  /\ pc = "idle"
  /\ analyzeCodebaseEntry(selectedPaths)

\* a later call on the same analyzer, after the earlier one has returned or rejected
AnalyzeAgain(selectedPaths) ==
  /\ pc \in {"done", "rejected", "stale"}
  /\ analyzeCodebaseEntry(selectedPaths)

removeEntry(p) == SelectSeq(fs, LAMBDA e : e.path # p)

lockEntry(p) == [i \in 1..Len(fs) |-> IF fs[i].path = p THEN [fs[i] EXCEPT !.readable = FALSE]
                                                      ELSE fs[i]]

\* between two calls a file is deleted or loses its read permission; the map the
\* earlier call returned stays as it is
FileSystemChange ==
  /\ pc \in {"done", "rejected", "stale"}
  /\ \E p \in Changeable :
       /\ fsHas(p)
       /\ \/ fs' = removeEntry(p)
          \/ fsEntry(p).readable /\ fs' = lockEntry(p)
  /\ pc' = "stale"
  /\ UNCHANGED <<modules, filesToAnalyze, next, selected, probeLog, generator, outputs, held,
               panel>>

\* the loop that gives up the batch at the first file that cannot be read
AnalyzeFileAbort ==
  /\ pc = "extract"
  /\ next <= Len(filesToAnalyze)
  /\ LET filePath == filesToAnalyze[next]
     IN IF readFileThrows(filePath)
        THEN /\ next' = Len(filesToAnalyze) + 1
             /\ UNCHANGED <<modules, probeLog>>
        ELSE LET module == analyzeFile(filePath)
             IN /\ modules' = mapSet(modules, module)
                /\ probeLog' = probeLog
                                 \o resolutionCalls(readFile(filePath), filePath, module.languageId)
                /\ next' = next + 1
  /\ UNCHANGED <<fs, filesToAnalyze, pc, selected, generator, outputs, held, panel>>

\* one turn of the loop of analyzeCodebase: analyzeFile and modules.set; analyzeFile
\* returns null for a file that cannot be read and the loop goes on
AnalyzeFile ==
  /\ pc = "extract"
  /\ next <= Len(filesToAnalyze)
  /\ LET filePath == filesToAnalyze[next]
     IN IF readFileThrows(filePath)
        THEN UNCHANGED <<modules, probeLog>>
        ELSE LET module == analyzeFile(filePath)
             IN /\ modules' = mapSet(modules, module)
                /\ probeLog' = probeLog
                                 \o resolutionCalls(readFile(filePath), filePath, module.languageId)
  /\ next' = next + 1
  /\ UNCHANGED <<fs, filesToAnalyze, pc, selected, generator, outputs, held, panel>>

\* linking that starts while candidates are still waiting
ResolveDependenciesEarly ==
  /\ pc = "extract"
  /\ modules' = resolveDependencies(modules)
  /\ pc' = "done"
  /\ held' = <<modules'>>
  /\ UNCHANGED <<fs, filesToAnalyze, next, selected, probeLog, generator, outputs, panel>>

\* the end of analyzeCodebase: resolveDependencies and return
ResolveDependencies ==
  /\ pc = "extract"
  /\ next > Len(filesToAnalyze)
  /\ modules' = resolveDependencies(modules)
  /\ pc' = "done"
  /\ held' = <<modules'>>
  /\ UNCHANGED <<fs, filesToAnalyze, next, selected, probeLog, generator, outputs, panel>>

\* a call of generate(): the rendered map, the diagram or the error, and the ID table
\* of the generator after the call
Rendered(by, map, r) ==
  [by |-> by, map |-> map, ok |-> r.ok, text |-> r.text, names |-> r.gen.namesHashMap]

\* CodebaseGraphBuilder.generateMermaid on the returned map: a fresh generator
GenerateMermaid ==
  /\ pc = "done"
  /\ Len(outputs) < MaxRenders
  /\ outputs' = Append(outputs, Rendered("fresh", modules, generateMermaid(modules)))
  /\ UNCHANGED <<fs, modules, filesToAnalyze, next, pc, selected, probeLog, generator, held,
               panel>>

\* generate() on the generator that is kept between calls
Generate ==
  /\ pc = "done"
  /\ Len(outputs) < MaxRenders
  /\ LET r == generate(generator, modules)
     IN /\ generator' = r.gen
        /\ outputs' = Append(outputs, Rendered("kept", modules, r))
  /\ UNCHANGED <<fs, modules, filesToAnalyze, next, pc, selected, probeLog, held, panel>>

Next ==
  \/ \E selectedPaths \in Selections : AnalyzeBegin(selectedPaths)
  \/ AnalyzeFile
  \/ ResolveDependencies
  \/ GenerateMermaid
  \/ Generate

Spec == Init /\ [][Next]_vars

\* The analyzer alone, on the source trees
InitAnalyzer == InitOn(AnalyzerWorkspaces)

NextAnalyzer ==
  \/ \E selectedPaths \in AnalyzerSelections : AnalyzeBegin(selectedPaths)
  \/ AnalyzeFile
  \/ ResolveDependencies

SpecAnalyzer == InitAnalyzer /\ [][NextAnalyzer]_vars

\* the guard of AnalyzeFile, which is ENABLED <<AnalyzeFile>>_vars: a turn moves `next`
loopTurnEnabled == pc = "extract" /\ next <= Len(filesToAnalyze)

\* WF_vars(AnalyzeFile), with its enabling condition written out
FairLoop == []<>(~loopTurnEnabled) \/ []<><<AnalyzeFile>>_vars

\* The analyzer whose awaited reads settle: a loop turn or the return that can be taken
\* is taken
SpecAnalyzerLive == SpecAnalyzer /\ FairLoop /\ WF_vars(ResolveDependencies)

\* One analyzer called again and again, the disk changing between the calls
InitReanalysis == InitOn(ReanalysisWorkspaces)

NextReanalysis ==
  \/ \E selectedPaths \in Selections : AnalyzeBegin(selectedPaths)
  \/ \E selectedPaths \in Selections : AnalyzeAgain(selectedPaths)
  \/ FileSystemChange
  \/ AnalyzeFile
  \/ ResolveDependencies

SpecReanalysis == InitReanalysis /\ [][NextReanalysis]_vars

\* The panel of CodebaseFlowProvider: every updateView run makes its own analyzer
analyzerVars == <<modules, filesToAnalyze, next, pc, selected, probeLog, generator, outputs, held>>

\* the folder or file the command was invoked on
PanelSelections == { << W(P(<< <<"src">> >>)) >>, << W(srcA) >> }

\* updateView down to the first await of the loop of analyzeCodebase: a new analyzer,
\* its empty map and the files it discovers; the stat of a selected path that is gone
\* rejects the call
newRun(selectedPaths) ==
  IF selectedPaths # NoSelection /\ statThrows(selectedPaths)
  THEN [pc |-> "rejected", files |-> <<>>, next |-> 1, modules |-> <<>>]
  ELSE [pc |-> "extract",
        files |-> IF selectedPaths = NoSelection THEN getAllSupportedFiles
                  ELSE getFilesFromPaths(selectedPaths),
        next |-> 1, modules |-> <<>>]

\* updateView: the loading page is shown and the analysis starts
startRun(selectedPaths, pending) ==
  panel' = [html |-> Page("loading", 0, <<>>), pending |-> pending,
            selectedPaths |-> selectedPaths,
            runs |-> Append(panel.runs, newRun(selectedPaths))]

\* createOrShow when there is no panel: the panel is made and updateView called
CreateOrShow(selectedPaths) ==
  /\ panel = noPanel
  /\ startRun(selectedPaths, 0)
  /\ UNCHANGED <<fs, analyzerVars>>

\* a click on the refresh button of the diagram page posts a message
ClickRefresh ==
  /\ panel.html.page = "diagram"
  /\ Len(panel.runs) + panel.pending < MaxRuns
  /\ panel' = [panel EXCEPT !.pending = @ + 1]
  /\ UNCHANGED <<fs, analyzerVars>>

\* onDidReceiveMessage, case "refresh": updateView with the selectedPaths of the closure
ReceiveRefresh ==
  /\ panel.pending > 0
  /\ startRun(panel.selectedPaths, panel.pending - 1)
  /\ UNCHANGED <<fs, analyzerVars>>

\* one turn of the loop of analyzeCodebase in run r
RunAnalyzeFile(r) ==
  /\ panel.runs[r].pc = "extract"
  /\ panel.runs[r].next <= Len(panel.runs[r].files)
  /\ LET run == panel.runs[r]
         filePath == run.files[run.next]
         map == IF readFileThrows(filePath) THEN run.modules
                ELSE mapSet(run.modules, analyzeFile(filePath))
     IN panel' = [panel EXCEPT !.runs[r] = [run EXCEPT !.modules = map, !.next = @ + 1]]
  /\ UNCHANGED <<fs, analyzerVars>>

\* the end of run r: resolveDependencies, generateMermaid, webview.html; a diagram
\* that cannot be rendered gives the error page of the catch clause
RunComplete(r) ==
  /\ panel.runs[r].pc = "extract"
  /\ panel.runs[r].next > Len(panel.runs[r].files)
  /\ LET map == resolveDependencies(panel.runs[r].modules)
         mermaidCode == generateMermaid(map)
     IN panel' = [panel EXCEPT
                    !.runs[r] = [@ EXCEPT !.pc = "done", !.modules = map],
                    !.html = IF mermaidCode.ok THEN Page("diagram", r, mermaidCode.text)
                             ELSE Page("error", r, <<>>)]
  /\ UNCHANGED <<fs, analyzerVars>>

\* the catch clause of updateView for a run whose analyzeCodebase rejected
RunReject(r) ==
  /\ panel.runs[r].pc = "rejected"
  /\ panel' = [panel EXCEPT !.runs[r] = [@ EXCEPT !.pc = "done"],
                            !.html = Page("error", r, <<>>)]
  /\ UNCHANGED <<fs, analyzerVars>>

\* a file is deleted or loses its read permission while the panel is open
DiskChange ==
  /\ panel # noPanel
  /\ \E p \in Changeable :
       /\ fsHas(p)
       /\ \/ fs' = removeEntry(p)
          \/ fsEntry(p).readable /\ fs' = lockEntry(p)
  /\ UNCHANGED <<analyzerVars, panel>>

InitPanel == InitOn(ReanalysisWorkspaces)

NextPanel ==
  \/ \E selectedPaths \in PanelSelections : CreateOrShow(selectedPaths)
  \/ ClickRefresh
  \/ ReceiveRefresh
  \/ \E r \in 1..Len(panel.runs) : RunAnalyzeFile(r)
  \/ \E r \in 1..Len(panel.runs) : RunComplete(r)
  \/ \E r \in 1..Len(panel.runs) : RunReject(r)
  \/ DiskChange

SpecPanel == InitPanel /\ [][NextPanel]_vars

\* Analysis and rendering of the trees whose diagrams carry every kind of edge
InitDiagram == InitOn(DiagramWorkspaces)

NextDiagram ==
  \/ AnalyzeBegin(NoSelection)
  \/ AnalyzeFile
  \/ ResolveDependencies
  \/ GenerateMermaid
  \/ Generate

SpecDiagram == InitDiagram /\ [][NextDiagram]_vars

----------------------------------------------------------------------------
(* Properties *)

ModuleIdx == 1..Len(modules)

occurrences(seq, x) == Cardinality({i \in 1..Len(seq) : seq[i] = x})

dependsOn(a, b) == \E k \in 1..Len(a.dependencies) : a.dependencies[k].resolved = b.source

moduleAt(path) == modules[mapIndex(modules, path)]

textOf(path) == fsEntry(path).content

hasStmt(path, st) == \E k \in 1..Len(textOf(path)) : textOf(path)[k] = st

\* the ID the diagram gives the i-th module of the rendered map: its class directive
idAt(out, i) == out.text.nodeStyles[i][2]

edgePairs(out) == {<<out.text.edges[k][1], out.text.edges[k][3]>> : k \in 1..Len(out.text.edges)}

OkOutputs == {outputs[k] : k \in {k \in 1..Len(outputs) : outputs[k].ok}}

\* C1: once analyzeCodebase has returned, B.dependents holds A's key exactly once when
\* some dependency of A resolves to B's key and not at all otherwise, and every entry of
\* a dependents list is a key of the map.
C1_DependentsExact ==
  pc = "done" =>
    /\ \A i \in ModuleIdx, j \in ModuleIdx :
         occurrences(modules[j].dependents, modules[i].source)
           = IF dependsOn(modules[i], modules[j]) THEN 1 ELSE 0
    /\ \A j \in ModuleIdx : \A k \in 1..Len(modules[j].dependents) :
         modules[j].dependents[k] \in mapKeys(modules)

\* a.ts imports and requires b.ts, which lists it once; another dependency of a.ts
\* resolves to a file that is not in the map
C1_Witness ==
  /\ pc = "done"
  /\ mapHas(modules, W(srcA)) /\ mapHas(modules, W(srcBts))
  /\ Len(moduleAt(W(srcA)).dependencies) = 2
  /\ \A k \in 1..2 : moduleAt(W(srcA)).dependencies[k].resolved = W(srcBts)
  /\ moduleAt(W(srcA)).dependencies[1].dependencyTypes # moduleAt(W(srcA)).dependencies[2].dependencyTypes
  /\ occurrences(moduleAt(W(srcBts)).dependents, W(srcA)) = 1

\* the style a directive must carry for an edge between the modules with these IDs
expectedStyle(out, k) ==
  LET from == out.text.edges[k][1]
      to == out.text.edges[k][3]
      M == 1..Len(out.map)
      fromIdx == {i \in M : idAt(out, i) = from}
      toIdx == {i \in M : idAt(out, i) = to}
  IN IF fromIdx # {} /\ toIdx # {}
     THEN LET a == out.map[CHOOSE i \in fromIdx : TRUE]
              b == out.map[CHOOSE i \in toIdx : TRUE]
              t == classifyEdge(a.fileCategory, b.fileCategory, a.relativePath, b.relativePath)
          IN [index |-> k - 1, stroke |-> getEdgeColor(t), dashed |-> (t = "indirect")]
     ELSE [index |-> k - 1, stroke |-> "#0066CC", dashed |-> FALSE]

\* C2: a diagram with N edge lines carries exactly N linkStyle directives, with the
\* indices 0..N-1 in increasing order, the directive at position k being the style of
\* the two modules the k-th edge line connects.
C2_EdgeStylesAligned ==
  \A out \in OkOutputs :
    /\ Len(out.text.edgeStyles) = Len(out.text.edges)
    /\ \A k \in 1..Len(out.text.edges) : out.text.edgeStyles[k] = expectedStyle(out, k)

\* a diagram with two edges that are styled differently
C2_Witness ==
  \E out \in OkOutputs :
    /\ Len(out.text.edges) >= 2
    /\ \E k \in 1..Len(out.text.edges) : out.text.edgeStyles[k].dashed
    /\ ~out.text.edgeStyles[1].dashed

validDependsOn(a, b) ==
  \E k \in 1..Len(a.dependencies) :
     a.dependencies[k].valid /\ a.dependencies[k].resolved = b.source

danglingDeps(map) ==
  UNION {{map[i].dependencies[k].resolved : k \in 1..Len(map[i].dependencies)} : i \in 1..Len(map)}
    \ ({map[i].source : i \in 1..Len(map)} \cup {NULL})

\* C3: the edge lines of a diagram are exactly the pairs (ID of A, ID of B) of modules
\* A, B of the rendered map with a valid dependency of A resolved to B's key; a valid
\* dependency resolved to a file that is no key of the map appears in no dependents list.
C3_EdgesIffValidDependency ==
  /\ \A out \in OkOutputs :
       /\ Len(out.text.nodeStyles) = Len(out.map)
       /\ edgePairs(out) =
            {<<idAt(out, ij[1]), idAt(out, ij[2])>> :
               ij \in {ij \in (1..Len(out.map)) \X (1..Len(out.map)) :
                         validDependsOn(out.map[ij[1]], out.map[ij[2]])}}
  /\ pc = "done" =>
       \A j \in ModuleIdx : \A k \in 1..Len(modules[j].dependents) :
          modules[j].dependents[k] \notin danglingDeps(modules)

\* a diagram of a map in which a.ts has a valid dependency on src/dist/d.js, a file the
\* walk ignores, next to the rendered edge of config.ts
C3_Witness ==
  \E out \in OkOutputs :
    /\ W(srcDistD) \in danglingDeps(out.map)
    /\ isFile(W(srcDistD))
    /\ Len(out.text.edges) >= 1

\* C4: two diagrams rendered from the same module map are identical, whether they come
\* from the generator that is kept between calls or from a fresh one.
C4_RenderDeterministic ==
  \A m \in 1..Len(outputs), n \in 1..Len(outputs) :
     outputs[m].map = outputs[n].map =>
        outputs[m].ok = outputs[n].ok /\ outputs[m].text = outputs[n].text

\* the kept generator has rendered a map with edges twice
C4_Witness ==
  /\ Len(outputs) = 2
  /\ outputs[1].by = "kept" /\ outputs[2].by = "kept"
  /\ outputs[1].ok /\ Len(outputs[1].text.edges) >= 2

jsFile(path) == getLanguageId(pathExtname(path)) \in {"typescript", "javascript"}

\* the base a raw JS/TS path is probed from
baseOf(modulePath, fromFile) ==
  IF startsWithSep(modulePath) THEN pathJoin(workspaceRoot, modulePath)
  ELSE pathResolve(pathDirname(fromFile), modulePath)

fileCandidates(b) ==
  <<b, Append(b, ".js"), Append(b, ".ts"), Append(b, ".jsx"), Append(b, ".tsx"),
    Append(b, ".mjs"), Append(b, ".cjs")>>

indexCandidates(b) ==
  <<b \o <<SEP, "index", ".js">>, b \o <<SEP, "index", ".ts">>,
    b \o <<SEP, "index", ".jsx">>, b \o <<SEP, "index", ".tsx">>>>

\* the first element of a list of paths that satisfies test(_), NULL when none does
firstThat(cands, test(_)) ==
  LET hits == {n \in 1..Len(cands) : test(cands[n])}
  IN IF hits = {} THEN NULL ELSE cands[CHOOSE n \in hits : \A m \in hits : n <= m]

depsOn(path, modulePath) ==
  {d \in {moduleAt(path).dependencies[k] : k \in 1..Len(moduleAt(path).dependencies)} :
     d.module = modulePath}

dotB == <<".", SEP, "b">>

\* C5: a dependency of a JS/TS file on a raw path beginning with "." is resolved to the
\* first of base, base.js, base.ts, base.jsx, base.tsx, base.mjs, base.cjs that is a
\* regular file, base being relative to the importing file's directory; "./b" in
\* src/a.ts resolves to src/b.ts when only that exists (and b.ts then lists a.ts as a
\* dependent) and to src/b.js when both b.js and b.ts exist.
C5_ExtensionProbing ==
  /\ \A i \in ModuleIdx : \A k \in 1..Len(modules[i].dependencies) :
       LET dep == modules[i].dependencies[k]
           cands == fileCandidates(pathResolve(pathDirname(modules[i].source), dep.module))
       IN (jsFile(modules[i].source) /\ startsWithDot(dep.module)
             /\ \E n \in 1..7 : isFile(cands[n]))
          => dep.resolved = firstThat(cands, isFile)
  /\ (mapHas(modules, W(srcA)) /\ ~isFile(W(srcB)) /\ isFile(W(srcBts)))
       => \A d \in depsOn(W(srcA), dotB) :
            d.resolved = IF isFile(W(srcBjs)) THEN W(srcBjs) ELSE W(srcBts)
  /\ (pc = "done" /\ mapHas(modules, W(srcA)) /\ mapHas(modules, W(srcBts))
        /\ depsOn(W(srcA), dotB) # {} /\ ~isFile(W(srcB)) /\ ~isFile(W(srcBjs)))
       => occurrences(moduleAt(W(srcBts)).dependents, W(srcA)) = 1

\* only src/b.ts exists, a.ts imports "./b", b.ts lists a.ts
C5_Witness ==
  /\ pc = "done"
  /\ mapHas(modules, W(srcA)) /\ mapHas(modules, W(srcBts))
  /\ hasStmt(W(srcA), importB)
  /\ ~fsHas(W(srcB)) /\ ~fsHas(W(srcBjs))
  /\ \E d \in depsOn(W(srcA), dotB) : d.resolved = W(srcBts)
  /\ occurrences(moduleAt(W(srcBts)).dependents, W(srcA)) = 1

\* C6: an index file is probed only when none of the seven file candidates is a regular
\* file, and the dependency is then resolved to the first of base/index.js, index.ts,
\* index.jsx, index.tsx that exists; a.ts and config.ts importing "./b" with only
\* b/index.ts present resolve to that file, which lists both as dependents.
C6_IndexFallback ==
  /\ \A e \in {probeLog[k] : k \in 1..Len(probeLog)} :
       LET b == baseOf(e.module, e.file)
           idx == indexCandidates(b)
           cands == fileCandidates(b)
       IN (jsFile(e.file) /\ \E n \in 1..4, q \in 1..Len(e.probed) : e.probed[q] = idx[n])
          => \A n \in 1..7 : ~isFile(cands[n])
  /\ \A i \in ModuleIdx : \A k \in 1..Len(modules[i].dependencies) :
       LET dep == modules[i].dependencies[k]
           b == baseOf(dep.module, modules[i].source)
           cands == fileCandidates(b)
       IN (jsFile(modules[i].source)
             /\ (startsWithDot(dep.module) \/ startsWithSep(dep.module))
             /\ \A n \in 1..7 : ~isFile(cands[n]))
          => dep.resolved = firstThat(indexCandidates(b), existsSync)
  /\ (pc = "done" /\ mapHas(modules, W(srcA)) /\ mapHas(modules, W(srcConfig))
        /\ mapHas(modules, W(srcBIndexTs)) /\ depsOn(W(srcA), dotB) # {}
        /\ ~fsHas(W(srcBIndexJs)) /\ ~isFile(W(srcBjs)) /\ ~isFile(W(srcBts)))
       => /\ \A d \in depsOn(W(srcA), dotB) \cup depsOn(W(srcConfig), dotB) :
               d.resolved = W(srcBIndexTs)
          /\ occurrences(moduleAt(W(srcBIndexTs)).dependents, W(srcA)) = 1
          /\ occurrences(moduleAt(W(srcBIndexTs)).dependents, W(srcConfig)) = 1

\* only src/b/index.ts exists; it lists a.ts and config.ts, which both import "./b"
C6_Witness ==
  /\ pc = "done"
  /\ mapHas(modules, W(srcBIndexTs)) /\ mapHas(modules, W(srcA))
  /\ ~fsHas(W(srcBIndexJs)) /\ ~fsHas(W(srcBjs)) /\ ~fsHas(W(srcBts))
  /\ moduleAt(W(srcBIndexTs)).dependents = <<W(srcA), W(srcConfig)>>
  /\ \E q \in 1..Len(probeLog) : probeLog[q].file = W(srcA) /\ Len(probeLog[q].probed) = 9

\* C7: `from utils import helper` in pkg/mod.py, with pkg/utils.py on disk, yields a
\* dependency of mod.py that is valid and resolved to pkg/utils.py.
C7_PythonSiblingResolves ==
  (mapHas(modules, W(pkgMod)) /\ hasStmt(W(pkgMod), fromUtils) /\ isFile(W(pkgUtils)))
  => \E d \in depsOn(W(pkgMod), <<"utils">>) : d.valid /\ d.resolved = W(pkgUtils)

external(modulePath) == ~startsWithDot(modulePath) /\ ~startsWithSep(modulePath)

\* C8: a dependency of a JS/TS file on a raw path beginning with neither "." nor "/" has
\* resolved = null and valid = false, its resolution probed no path, and every edge line
\* leaving the file leads to the target of one of its other dependencies.
C8_ExternalUnresolved ==
  /\ \A i \in ModuleIdx : \A k \in 1..Len(modules[i].dependencies) :
       LET dep == modules[i].dependencies[k]
       IN (jsFile(modules[i].source) /\ external(dep.module))
          => dep.resolved = NULL /\ ~dep.valid
  /\ \A q \in 1..Len(probeLog) :
       (jsFile(probeLog[q].file) /\ external(probeLog[q].module)) => probeLog[q].probed = <<>>
  /\ \A out \in OkOutputs : \A i \in 1..Len(out.map) : \A e \in edgePairs(out) :
       (jsFile(out.map[i].source) /\ e[1] = idAt(out, i))
       => \E j \in 1..Len(out.map), k \in 1..Len(out.map[i].dependencies) :
            /\ ~external(out.map[i].dependencies[k].module)
            /\ out.map[i].dependencies[k].resolved = out.map[j].source
            /\ e[2] = idAt(out, j)

\* a.ts imports lodash and nothing else; the diagram has an edge, none of them from a.ts
C8_Witness ==
  \E out \in OkOutputs : \E i \in 1..Len(out.map) :
    /\ out.map[i].source = W(srcA)
    /\ Len(out.map[i].dependencies) >= 1
    /\ \A k \in 1..Len(out.map[i].dependencies) : out.map[i].dependencies[k].module = <<"lodash">>
    /\ \E q \in 1..Len(probeLog) : probeLog[q].module = <<"lodash">> /\ probeLog[q].probed = <<>>
    /\ Len(out.text.edges) >= 1
    /\ \A e \in edgePairs(out) : e[1] # idAt(out, i)

\* C9: every dependency with valid = true has a resolved path that is a regular file.
C9_ValidIsRegularFile ==
  \A i \in ModuleIdx : \A k \in 1..Len(modules[i].dependencies) :
     modules[i].dependencies[k].valid
     => /\ modules[i].dependencies[k].resolved # NULL
        /\ isFile(modules[i].dependencies[k].resolved)

\* C10, as stated: once analyzeCodebase has returned, no module's key is in its own
\* dependents list.
C10_NoSelfDependent ==
  pc = "done" => \A i \in ModuleIdx : occurrences(modules[i].dependents, modules[i].source) = 0

\* C10, amended: once analyzeCodebase has returned, a module's key is in its own
\* dependents list exactly when one of its own dependencies resolves to its own path.
C10_SelfDependentIffSelfImport ==
  pc = "done" =>
    \A i \in ModuleIdx :
       (occurrences(modules[i].dependents, modules[i].source) > 0)
         <=> dependsOn(modules[i], modules[i])

\* a.ts imports "./a", which resolves to a.ts itself, and lists itself
C10_Witness ==
  /\ pc = "done"
  /\ mapHas(modules, W(srcA))
  /\ hasStmt(W(srcA), importSelf)
  /\ occurrences(moduleAt(W(srcA)).dependents, W(srcA)) = 1

----------------------------------------------------------------------------
(* Properties of the file discovery and of the extraction loop *)

Range(seq) == {seq[i] : i \in 1..Len(seq)}

fileEntries == {e \in Range(fs) : e.kind = "file"}

\* the names of a path below the directory `dir`
componentsBelow(dir, path) == pathParts(pathRelative(dir, path))

below(dir, path) == path # dir /\ ~startsWithDotDot(pathRelative(dir, path))

ignoredComponent(seg) ==
  startsWithDot(seg) \/ seg \in {<<"node_modules">>, <<"dist">>, <<"build">>}

noIgnoredBelow(dir, path) ==
  \A k \in 1..Len(componentsBelow(dir, path)) : ~ignoredComponent(componentsBelow(dir, path)[k])

\* dir and every directory between dir and the file can be listed
listableDown(dir, path) ==
  LET comps == componentsBelow(dir, path)
  IN \A k \in 0..(Len(comps) - 1) :
        LET d == IF k = 0 THEN dir ELSE dir \o absOf(SubSeq(comps, 1, k))
        IN ~(fsHas(d) /\ ~fsEntry(d).readable)

\* a file the recursive walk from `dir` comes to
reachedFrom(dir, path) ==
  below(dir, path) /\ noIgnoredBelow(dir, path) /\ listableDown(dir, path)

walked == selected = NoSelection /\ pc \in {"extract", "done"}

couldBeRead(path) == fsHas(path) /\ fsEntry(path).readable

\* C11: the module map holds exactly one module, complete and with source equal to its
\* key, for every candidate handled so far whose content could be read, in candidate
\* order, and none for a candidate whose read failed; when analyzeCodebase returns every
\* candidate has been handled.
C11_ReadableCandidatesInserted ==
  pc \in {"extract", "done"} =>
    /\ [i \in ModuleIdx |-> modules[i].source]
         = SelectSeq(SubSeq(filesToAnalyze, 1, next - 1), couldBeRead)
    /\ \A i \in ModuleIdx :
         /\ modules[i].relativePath = pathRelative(workspaceRoot, modules[i].source)
         /\ modules[i].fileName = pathBasename(modules[i].source)
         /\ modules[i].languageId = getLanguageId(pathExtname(modules[i].source))
         /\ modules[i].fileCategory \in FileCategories
         /\ Len(modules[i].dependencies) = Len(textOf(modules[i].source))
    /\ pc = "done" => next = Len(filesToAnalyze) + 1

\* lib/y.py cannot be read: a.ts before it and u.js and z.go after it are in the map
C11_Witness ==
  /\ pc = "done"
  /\ filesToAnalyze = <<W(srcA), W(srcLibY), W(srcU), W(rootZ)>>
  /\ ~couldBeRead(W(srcLibY))
  /\ [i \in ModuleIdx |-> modules[i].source] = <<W(srcA), W(srcU), W(rootZ)>>

\* C12: analyzeCodebase never rejects: whatever cannot be read, listed or stat'ed is
\* skipped and the call returns a module map.
C12_NeverRejects == pc # "rejected"

SpecExtensions == {".js", ".jsx", ".ts", ".tsx", ".mjs", ".cjs", ".py", ".java",
                   ".cpp", ".cxx", ".cc", ".c", ".h", ".hpp", ".rs", ".go"}

\* C13: a file the walk from the workspace root comes to is a candidate exactly when
\* its extension is one of .js .jsx .ts .tsx .mjs .cjs .py .java .cpp .cxx .cc .c .h
\* .hpp .rs .go.
C13_SpecExtensionsAccepted ==
  walked =>
    \A e \in fileEntries :
       reachedFrom(workspaceRoot, e.path)
       => (e.path \in Range(filesToAnalyze) <=> pathExtname(e.path) \in SpecExtensions)

\* C14: no file the walk returns has, below the workspace root, a name that begins with
\* a dot or is node_modules, dist or build, and every file with a supported extension
\* that has no such name on its path and lies in directories that can be listed is
\* returned, whatever ignored directory was listed before it.
C14_IgnoredNamesSkipped ==
  walked =>
    /\ \A f \in Range(filesToAnalyze) : noIgnoredBelow(workspaceRoot, f)
    /\ \A e \in fileEntries :
         (reachedFrom(workspaceRoot, e.path) /\ pathExtname(e.path) \in supportedExtensions)
         => e.path \in Range(filesToAnalyze)

\* src/lib/build/o.ts, src/dist/d.js and the dot-named entries are left out; lib/y.py,
\* listed after lib/build, and z.go, listed after node_modules and src, are returned
C14_Witness ==
  /\ walked
  /\ pc = "done"
  /\ fsHas(W(srcLibBuildO)) /\ fsHas(W(srcDistD)) /\ fsHas(W(srcEslintrc))
  /\ fsHas(W(gitHook)) /\ fsHas(W(nodeModulesM))
  /\ Range(filesToAnalyze) = {W(srcA), W(srcLibY), W(srcU), W(rootZ)}

\* C15: after an analysis restricted to one existing directory D, the keys of the map
\* are exactly the readable files with a supported extension that the walk down from D
\* comes to (ignored names below D skipped).
C15_SelectedDirectoryExact ==
  (pc = "done" /\ selected # NoSelection /\ Len(selected) = 1 /\ isDirectory(selected[1]))
  => mapKeys(modules)
       = {e.path : e \in {e \in fileEntries :
                            /\ reachedFrom(selected[1], e.path)
                            /\ pathExtname(e.path) \in supportedExtensions
                            /\ e.readable}}

----------------------------------------------------------------------------
(* Properties of the classifier *)

Rule(category, exact, names, dirs, prefixes) ==
  [category |-> category, exact |-> exact, names |-> names, dirs |-> dirs,
   prefixes |-> prefixes]

\* the rules in the order entry, report, tool, config, core
ClassifyRules ==
  << Rule("entry",
          {<<"index", ".ts">>, <<"index", ".js">>, <<"index", ".tsx">>, <<"index", ".jsx">>,
           <<"index", ".mjs">>, <<"__init__", ".py">>},
          {"files-and-dirs", "options"}, {"main", "entry"}, {}),
     Rule("report", {},
          {"report", "transform", "consolidate", "match-facade", "gosubsum"},
          {"report", "reports", "transform", "transforms"}, {"graph-"}),
     Rule("tool", {},
          {"hotspots", "wrap-stream", "options-compatible"},
          {"bin", "cache", "tools", "tool"}, {}),
     Rule("config", {},
          {"validator", "config", "format-helpers", "merge-configs", "match-dependency-rule"},
          {"validate", "validators", "config", "configs", "cli", "indexers", "performance",
           "utils", "util", "helpers"}, {"config-"}),
     Rule("core", {},
          {"extract", "schema", "enrich", "summarize", "reachable", "derive",
           "main-result-schema"},
          {"enrich", "extract", "schema", "schemas", "summarize", "acorn", "tsc", "resolve",
           "transpile"}, {}) >>

ruleMatches(r, lowerPath, lowerName) ==
  \/ lowerName \in r.exact
  \/ \E n \in r.names : nameIncludes(lowerName, n)
  \/ \E d \in r.dirs : pathIncludesDir(lowerPath, d)
  \/ \E pre \in r.prefixes : pathIncludesPrefix(lowerPath, pre)

ruleOf(category) == ClassifyRules[CHOOSE k \in 1..5 : ClassifyRules[k].category = category]

firstMatch(lowerPath, lowerName) ==
  LET hits == {k \in 1..5 : ruleMatches(ClassifyRules[k], lowerPath, lowerName)}
  IN IF hits = {} THEN "entry"
     ELSE ClassifyRules[CHOOSE k \in hits : \A m \in hits : k <= m].category

matchesRule(m, category) ==
  ruleMatches(ruleOf(category), toLowerCase(m.relativePath), toLowerCase(m.fileName))

\* C20: the category of every module is that of the first rule, in the order entry,
\* report, tool, config, core, that matches its lower-cased relative path and file name,
\* and entry when none matches; a file matching a report rule and a core rule but no
\* entry rule is report, one matching a tool rule and a config rule but no earlier rule
\* is tool.
C20_ClassifyFirstMatch ==
  \A i \in ModuleIdx :
     LET m == modules[i] IN
     /\ m.fileCategory = firstMatch(toLowerCase(m.relativePath), toLowerCase(m.fileName))
     /\ (matchesRule(m, "report") /\ matchesRule(m, "core") /\ ~matchesRule(m, "entry"))
          => m.fileCategory = "report"
     /\ (matchesRule(m, "tool") /\ matchesRule(m, "config")
           /\ ~matchesRule(m, "entry") /\ ~matchesRule(m, "report"))
          => m.fileCategory = "tool"

\* src/tools/Config.ts matches a tool rule by its path and a config rule by its
\* lower-cased name, and is tool
C20_Witness ==
  \E i \in ModuleIdx :
     /\ modules[i].relativePath = <<"src", SEP, "tools", SEP, "Config", ".ts">>
     /\ matchesRule(modules[i], "tool") /\ matchesRule(modules[i], "config")
     /\ modules[i].fileCategory = "tool"

\* a file name that is "index" followed by one extension
indexNamed(fileName) ==
  Len(fileName) = 2 /\ lowerTok(fileName[1]) = "index" /\ fileName[2] \in DotToks

\* C21: every module whose file is named index.<extension>, whatever the extension, or
\* __init__.py has the category entry, in whatever directory it lies.
C21_IndexFilesAreEntry ==
  \A i \in ModuleIdx :
     (indexNamed(modules[i].fileName) \/ modules[i].fileName = <<"__init__", ".py">>)
       => modules[i].fileCategory = "entry"

EdgeRule(type, anyCategory, bothCategory, eitherDirs, sourceDirs, targetDirs) ==
  [type |-> type, anyCategory |-> anyCategory, bothCategory |-> bothCategory,
   eitherDirs |-> eitherDirs, sourceDirs |-> sourceDirs, targetDirs |-> targetDirs]

\* the rules in the order indirect, internal, processing, utility, special
EdgeRules ==
  << EdgeRule("indirect", {"config"}, {}, {"config", "cli"}, {}, {}),
     EdgeRule("internal", {}, {"report"}, {}, {}, {}),
     EdgeRule("processing", {}, {"core"}, {"extract", "enrich"}, {}, {}),
     EdgeRule("utility", {"tool"}, {}, {"utils"}, {}, {}),
     EdgeRule("special", {}, {}, {}, {"options"}, {"resolve"}) >>

edgeRuleMatches(r, sc, tc, sp, tp) ==
  \/ sc \in r.anyCategory \/ tc \in r.anyCategory
  \/ sc = tc /\ sc \in r.bothCategory
  \/ \E d \in r.eitherDirs \cup r.sourceDirs : pathIncludesDir(toLowerCase(sp), d)
  \/ \E d \in r.eitherDirs \cup r.targetDirs : pathIncludesDir(toLowerCase(tp), d)

edgeHits(sc, tc, sp, tp) == {k \in 1..5 : edgeRuleMatches(EdgeRules[k], sc, tc, sp, tp)}

firstEdgeMatch(sc, tc, sp, tp) ==
  LET hits == edgeHits(sc, tc, sp, tp)
  IN IF hits = {} THEN "normal"
     ELSE EdgeRules[CHOOSE k \in hits : \A m \in hits : k <= m].type

\* the modules the k-th edge line of a diagram connects
edgeFrom(out, k) == out.map[CHOOSE i \in 1..Len(out.map) : idAt(out, i) = out.text.edges[k][1]]

edgeTo(out, k) == out.map[CHOOSE i \in 1..Len(out.map) : idAt(out, i) = out.text.edges[k][3]]

edgeTypeOf(out, k) ==
  firstEdgeMatch(edgeFrom(out, k).fileCategory, edgeTo(out, k).fileCategory,
                 edgeFrom(out, k).relativePath, edgeTo(out, k).relativePath)

----------------------------------------------------------------------------
(* Properties of extraction *)

\* the dependency type the statement form stands for
typeOfForm(form) == IF form = "require" THEN "require" ELSE "import"

\* the raw path and type of each dependency of a module, in list order
rawDeps(m) ==
  [k \in 1..Len(m.dependencies) |->
     <<m.dependencies[k].module, m.dependencies[k].dependencyTypes>>]

\* the raw path and type of each statement of a text that binds names or calls
\* require, in text order
boundStatements(text) ==
  LET sts == SelectSeq(text, LAMBDA st : st.form \in {"from", "require"})
  IN [k \in 1..Len(sts) |-> <<sts[k].path, <<typeOfForm(sts[k].form)>>>>]

\* C23: the dependencies of a JS/TS module follow the order of their statements in
\* the text of the file, also when the text mixes import statements and require calls.
C23_SourceTextOrder ==
  \A i \in ModuleIdx :
     (jsFile(modules[i].source) /\ fsHas(modules[i].source))
       => rawDeps(modules[i]) = boundStatements(textOf(modules[i].source))

\* C24: every import statement of a JS/TS text, with bindings or for its side effects,
\* gives exactly one dependency of type import with its raw path and every require
\* call exactly one of type require: the list is as long as the text, and a raw path
\* and type occur in it as often as in the text.
C24_OneDependencyPerStatement ==
  \A i \in ModuleIdx :
     (jsFile(modules[i].source) /\ fsHas(modules[i].source))
       => LET text == textOf(modules[i].source)
              deps == rawDeps(modules[i])
          IN /\ Len(deps) = Len(text)
             /\ \A k \in 1..Len(text) :
                  LET d == <<text[k].path, <<typeOfForm(text[k].form)>>>>
                  IN occurrences(deps, d)
                       = Cardinality({m \in 1..Len(text) :
                                        text[m].path = text[k].path
                                        /\ typeOfForm(text[m].form) = typeOfForm(text[k].form)})

----------------------------------------------------------------------------
(* Properties of the phases and of the edge list *)

\* C16: while candidates are being extracted no dependents list has an entry; linking
\* has happened only when every candidate has been handled; once linking is done no
\* module is inserted or replaced; and a diagram is rendered only after linking, from
\* the map as linking left it.
C16_PhaseBarrier ==
  /\ [](pc = "extract" => \A i \in ModuleIdx : modules[i].dependents = <<>>)
  /\ [](pc = "done" => next > Len(filesToAnalyze))
  /\ [][(pc = "done" /\ pc' = "done") => modules' = modules]_vars
  /\ [][outputs' # outputs
          => /\ pc = "done"
             /\ Len(outputs') = Len(outputs) + 1
             /\ outputs'[Len(outputs')].map = modules]_vars

\* three candidates were extracted, linking filled a dependents list, a diagram followed
C16_Witness ==
  /\ pc = "done"
  /\ Len(filesToAnalyze) >= 3
  /\ next = Len(filesToAnalyze) + 1
  /\ \E i \in ModuleIdx : modules[i].dependents # <<>>
  /\ Len(outputs) >= 1

\* the (fromID, toID) pairs of the valid dependencies on modules of the map, modules in
\* map order from position i on, dependencies in list order from position k on
RECURSIVE candidatePairs(_, _, _)
candidatePairs(out, i, k) ==
  IF i > Len(out.map) THEN <<>>
  ELSE IF k > Len(out.map[i].dependencies) THEN candidatePairs(out, i + 1, 1)
  ELSE LET dep == out.map[i].dependencies[k]
           targets == {j \in 1..Len(out.map) : out.map[j].source = dep.resolved}
       IN (IF dep.valid /\ targets # {}
           THEN << <<idAt(out, i), idAt(out, CHOOSE j \in targets : TRUE)>> >>
           ELSE <<>>)
          \o candidatePairs(out, i, k + 1)

\* the elements of seq that have no equal element before them
firstOccurrences(seq) ==
  LET keep == SelectSeq([k \in 1..Len(seq) |-> k],
                        LAMBDA k : \A m \in 1..(k - 1) : seq[m] # seq[k])
  IN [r \in 1..Len(keep) |-> seq[keep[r]]]

edgeLinePairs(out) == [k \in 1..Len(out.text.edges) |-> <<out.text.edges[k][1], out.text.edges[k][3]>>]

\* C17: the edge lines of a diagram hold no (fromID, toID) pair twice and are the first
\* occurrences, in order, of the pairs met when the modules are taken in map order and
\* the dependencies of each in list order.
C17_EdgesFirstOccurrence ==
  \A out \in OkOutputs :
     /\ \A m \in 1..Len(out.text.edges), n \in 1..Len(out.text.edges) :
          edgeLinePairs(out)[m] = edgeLinePairs(out)[n] => m = n
     /\ edgeLinePairs(out) = firstOccurrences(candidatePairs(out, 1, 1))

\* a.ts imports and requires the same file: one of the two pairs is dropped and the
\* edge of config.ts still follows the one that is kept
C17_Witness ==
  \E out \in OkOutputs :
     /\ Len(candidatePairs(out, 1, 1)) > Len(out.text.edges)
     /\ Len(out.text.edges) >= 2
     /\ candidatePairs(out, 1, 1)[1] = candidatePairs(out, 1, 1)[2]

sameButDependents(m1, m2) == [m1 EXCEPT !.dependents = <<>>] = [m2 EXCEPT !.dependents = <<>>]

\* C18: the step that links dependents keeps the keys of the map and their order and
\* changes no field of a module but dependents; a step that renders a diagram leaves the
\* whole map, dependents included, as it was.
C18_LinkingAndRenderingFrame ==
  /\ [][(pc = "extract" /\ pc' = "done")
          => /\ Len(modules') = Len(modules)
             /\ \A i \in ModuleIdx : sameButDependents(modules[i], modules'[i])]_vars
  /\ [][outputs' # outputs => modules' = modules]_vars

\* linking gave one module two dependents, some dependency of the map is unresolved,
\* and the kept generator has rendered the map twice
C18_Witness ==
  /\ pc = "done"
  /\ \E i \in ModuleIdx : Len(modules[i].dependents) >= 2
  /\ \E i \in ModuleIdx : \E k \in 1..Len(modules[i].dependencies) :
        ~modules[i].dependencies[k].valid
  /\ Len(outputs) >= 2
  /\ outputs[1].by = "kept" /\ outputs[2].by = "kept"

----------------------------------------------------------------------------
(* Properties of repeated calls *)

\* the candidates a call with the latest argument finds on the disk as it is
candidatesNow ==
  IF selected = NoSelection THEN getAllSupportedFiles ELSE getFilesFromPaths(selected)

RECURSIVE insertAll(_, _)
insertAll(map, files) ==
  IF files = <<>> THEN map
  ELSE insertAll(mapSet(map, analyzeFile(Head(files))), Tail(files))

\* the map of an analyzer that has made no call before
firstCallMap == resolveDependencies(insertAll(<<>>, SelectSeq(candidatesNow, couldBeRead)))

\* C19: whatever calls came before on the analyzer, when analyzeCodebase returns the map
\* is the one a first call would have built: modules only for the files this call found
\* and read, with dependents from this call alone, and none for a file that has been
\* deleted or has become unreadable.
C19_FreshEachCall ==
  pc = "done" =>
    /\ modules = firstCallMap
    /\ \A i \in ModuleIdx : couldBeRead(modules[i].source)

\* b.ts, analyzed by an earlier call, has been deleted; the latest call returned a.ts,
\* whose import of "./b" no longer resolves, and no module for b.ts
C19_Witness ==
  /\ pc = "done"
  /\ ~fsHas(W(srcBts))
  /\ mapHas(modules, W(srcA)) /\ ~mapHas(modules, W(srcBts))
  /\ \E d \in depsOn(W(srcA), dotB) : ~d.valid

----------------------------------------------------------------------------
(* Properties of the ID table *)

\* the directory prefixes of a relative path, shortest first, and then the path itself
pathsOfModule(relativePath) ==
  LET cuts == SelectSeq([n \in 1..Len(relativePath) |-> n],
                        LAMBDA n : relativePath[n] = SEP)
  IN [r \in 1..Len(cuts) |-> SubSeq(relativePath, 1, cuts[r] - 1)]
     \o <<relativePath>>

pathsInOrder(map) == flatten([k \in 1..Len(map) |-> pathsOfModule(map[k].relativePath)])

upperDigit(n) ==
  << "0", "1", "2", "3", "4", "5", "6", "7", "8", "9", "A", "B", "C", "D", "E", "F", "G",
     "H", "I", "J", "K", "L", "M", "N", "O", "P", "Q", "R", "S", "T", "U", "V", "W", "X",
     "Y", "Z" >>[n + 1]

\* k < 36 * 36 written in base 36 with upper-case digits
upperBase36(k) ==
  IF k < 36 THEN <<upperDigit(k)>> ELSE <<upperDigit(k \div 36), upperDigit(k % 36)>>

\* C25: after hashModuleNames the k-th distinct relative path, counted from 0 in the
\* order in which the paths are first seen (for each module in map order its directory
\* prefixes and then its full relative path), has the ID N followed by k in upper-case
\* base 36; no two of these paths share an ID; the table holds nothing but these paths
\* and the absolute paths of the modules, each with the ID of its relative path.
C25_IdsNumberFirstSeenPaths ==
  \A n \in 1..Len(outputs) :
     LET out == outputs[n]
         order == firstOccurrences(pathsInOrder(out.map))
     IN /\ \A k \in 1..Len(order) :
             /\ order[k] \in DOMAIN out.names
             /\ out.names[order[k]] = <<"N">> \o upperBase36(k - 1)
        /\ \A k \in 1..Len(order), m \in 1..Len(order) :
             out.names[order[k]] = out.names[order[m]] => k = m
        /\ \A i \in 1..Len(out.map) :
             /\ out.map[i].source \in DOMAIN out.names
             /\ out.names[out.map[i].source] = out.names[out.map[i].relativePath]
        /\ DOMAIN out.names
             = Range(order) \cup {out.map[i].source : i \in 1..Len(out.map)}

\* the last of the files of the wide directory is the last path seen and has the
\* two-digit ID N11, another file the ID NA
C25_Witness ==
  \E n \in 1..Len(outputs) :
     LET out == outputs[n]
         last == out.map[Len(out.map)]
     IN /\ Len(out.map) = Breadth
        /\ out.names[last.source] = <<"N">> \o upperBase36(3 * Breadth)
        /\ Len(out.names[last.source]) = 3
        /\ \E q \in DOMAIN out.names : out.names[q] = <<"N", "A">>

----------------------------------------------------------------------------
(* Properties of the rendered hierarchy *)

\* the IDs of the groups that are open after the first n lines of a hierarchy
RECURSIVE openGroups(_, _)
openGroups(lines, n) ==
  IF n = 0 THEN <<>>
  ELSE LET before == openGroups(lines, n - 1)
       IN IF lines[n][1] = "subgraph" THEN Append(before, lines[n][2])
          ELSE IF lines[n][1] = "end" THEN SubSeq(before, 1, Len(before) - 1)
          ELSE before

linesOfKind(lines, kind) == {n \in 1..Len(lines) : lines[n][1] = kind}

\* the directory prefixes of the modules of a map
directoriesOf(map) ==
  UNION {{pathsOfModule(map[i].relativePath)[j] :
            j \in 1..(Len(pathsOfModule(map[i].relativePath)) - 1)} : i \in 1..Len(map)}

\* the hierarchy of a diagram has one group per directory prefix of the map and one
\* leaf per module, the leaf carrying the ID of the module and lying inside the groups
\* of its directories, outermost first, each group carrying the ID of its directory
hierarchyComplete(out) ==
  LET lines == out.text.subgraphs IN
  /\ Cardinality(linesOfKind(lines, "subgraph")) = Cardinality(directoriesOf(out.map))
  /\ Cardinality(linesOfKind(lines, "node")) = Len(out.map)
  /\ \A i \in 1..Len(out.map) :
       LET paths == pathsOfModule(out.map[i].relativePath)
           at == {m \in linesOfKind(lines, "node") :
                    lines[m][2] = out.names[out.map[i].relativePath]}
       IN /\ Cardinality(at) = 1
          /\ \A m \in at :
               openGroups(lines, m) = [j \in 1..(Len(paths) - 1) |-> out.names[paths[j]]]

\* C26: whatever the names of the path segments, every call of generate() returns a
\* diagram, and its hierarchy has exactly one group per directory prefix and one leaf
\* per module, nested in the groups of its ancestors in order, each node with its ID.
C26_HierarchyComplete ==
  \A n \in 1..Len(outputs) : outputs[n].ok /\ hierarchyComplete(outputs[n])

----------------------------------------------------------------------------
(* Properties of the returned map *)

\* C27: the map analyzeCodebase (or getModules) has returned keeps the keys and the
\* contents it was returned with, also while and after analyzeCodebase runs again on
\* the same analyzer.
C27_ReturnedMapUnchanged == held # <<>> => getModules = held[1]

----------------------------------------------------------------------------
(* Properties of the panel *)

allRunsComplete ==
  /\ panel.runs # <<>>
  /\ panel.pending = 0
  /\ \A r \in 1..Len(panel.runs) : panel.runs[r].pc = "done"

\* C28: once every updateView run that was started has completed, overlapping or not,
\* the panel shows the page of the run that was started last, not that of an older run
\* and not the loading page.
C28_LatestRunShown ==
  allRunsComplete => (panel.html.page # "loading" /\ panel.html.run = Len(panel.runs))

----------------------------------------------------------------------------
(* Properties of the walk *)

linkEntries == {e \in Range(fs) : e.kind = "link"}

\* the path lies below the symbolic link
throughLink(path) ==
  \E e \in linkEntries :
     Len(path) > Len(e.path) /\ SubSeq(path, 1, Len(e.path) + 1) = e.path \o <<SEP>>

\* C29: the walk of a tree with a symbolic link back to an ancestor lists every
\* directory at most once and no link, returns no file below a link and no file twice,
\* and an analyzeCodebase that has got its candidates handles each of them, links the
\* dependents and returns.
C29_WalkTerminates ==
  /\ [](walked =>
          /\ \A k \in 1..Len(listedDirs), m \in 1..Len(listedDirs) :
                realPath(listedDirs[k]) = realPath(listedDirs[m]) => k = m
          /\ \A k \in 1..Len(listedDirs) :
                listedDirs[k] \notin {e.path : e \in linkEntries} /\ ~throughLink(listedDirs[k])
          /\ \A k \in 1..Len(filesToAnalyze) : ~throughLink(filesToAnalyze[k])
          /\ \A k \in 1..Len(filesToAnalyze), m \in 1..Len(filesToAnalyze) :
                filesToAnalyze[k] = filesToAnalyze[m] => k = m)
  /\ (pc = "extract" ~> pc = "done")

\* the walk has listed src/lib, which holds the link src/lib/up back to src, and the
\* call has returned the four files of the tree
C29_Witness ==
  /\ walked /\ pc = "done"
  /\ \E e \in linkEntries : e.path = W(srcLibUp) /\ isDirectory(e.target)
  /\ \E k \in 1..Len(listedDirs) : listedDirs[k] = pathDirname(W(srcLibUp))
  /\ Len(filesToAnalyze) = 4

----------------------------------------------------------------------------
(* Properties of the edge endpoints *)

\* the IDs registered in nodeIdToModule: those the class directives are written for
registeredIds(out) == {out.text.nodeStyles[i][2] : i \in 1..Len(out.text.nodeStyles)}

\* the IDs of the directory groups of the hierarchy
groupIds(out) ==
  {out.text.subgraphs[n][2] : n \in linesOfKind(out.text.subgraphs, "subgraph")}

\* C30: both endpoints of every edge line of a diagram are IDs registered in
\* nodeIdToModule, each the ID of the absolute path of a module of the rendered map and
\* none the ID of a directory group, so that every edge is styled from the two modules
\* it connects and none by the default branch.
C30_EdgeEndsAreModules ==
  \A out \in OkOutputs : \A k \in 1..Len(out.text.edges) :
     \A id \in {out.text.edges[k][1], out.text.edges[k][3]} :
        /\ id \in registeredIds(out)
        /\ id \notin groupIds(out)
        /\ \E i \in 1..Len(out.map) : out.names[out.map[i].source] = id

\* a diagram with directory groups and two edges, one of them not of the normal type
C30_Witness ==
  \E out \in OkOutputs :
     /\ Len(out.text.edges) >= 2
     /\ groupIds(out) # {}
     /\ \E k \in 1..Len(out.text.edges) : out.text.edgeStyles[k].stroke # "#0066CC"
     /\ \A k \in 1..Len(out.text.edges) : out.text.edges[k][1] \in registeredIds(out)

====
